---- MODULE Spec2Model ----
(***************************************************************************)
(* Model of the Jellyfin maintenance scripts: the core API client          *)
(* (jellyfin_core.py), the Australian rating mapper (aus_rating.py) and    *)
(* the Common Sense rating updater (commonsense_ratings.py).               *)
(*                                                                         *)
(* Python values are tagged records: None, a str (a sequence of one-       *)
(* character strings), an int or a bool.  A JSON object is a function      *)
(* from field names to such values.                                        *)
(***************************************************************************)
EXTENDS Integers, Sequences, FiniteSets, TLC

\* ------------------------------------------------------------------------
\* Bounds of the model
\* ------------------------------------------------------------------------
MaxLen == 3          \* longest string fed to the normalizers
MaxInt == 12         \* largest magnitude of an int fed to the normalizers
MaxCalls == 2        \* direct reconciler calls in one session
MaxEdits == 1        \* edits made to the server by somebody else during a run

\* ------------------------------------------------------------------------
\* Python values
\* ------------------------------------------------------------------------
None == [t |-> "None"]
S(seq) == [t |-> "str", s |-> seq]
I(n) == [t |-> "int", n |-> n]
B(b) == [t |-> "bool", b |-> b]

IsNone(v) == v.t = "None"
IsStr(v) == v.t = "str"

\* str.strip() removes these from both ends
Whitespace == {" ", "\t"}

DigitChars == <<"0", "1", "2", "3", "4", "5", "6", "7", "8", "9">>

RECURSIVE NatToStr(_)
NatToStr(n) ==
    IF n < 10 THEN <<DigitChars[n + 1]>>
    ELSE NatToStr(n \div 10) \o <<DigitChars[(n % 10) + 1]>>

\* str(value) of a scalar
PyStr(v) ==
    CASE v.t = "str" -> v.s
      [] v.t = "int" -> IF v.n < 0 THEN <<"-">> \o NatToStr(-v.n) ELSE NatToStr(v.n)
      [] v.t = "bool" -> IF v.b THEN <<"T", "r", "u", "e">> ELSE <<"F", "a", "l", "s", "e">>
      [] v.t = "None" -> <<"N", "o", "n", "e">>

RECURSIVE LStrip(_)
LStrip(s) ==
    IF s # <<>> /\ Head(s) \in Whitespace THEN LStrip(Tail(s)) ELSE s

RECURSIVE RStrip(_)
RStrip(s) ==
    IF s # <<>> /\ s[Len(s)] \in Whitespace THEN RStrip(SubSeq(s, 1, Len(s) - 1)) ELSE s

\* a plausible slip: only leading whitespace removed
StripLeftOnly(s) == LStrip(s)

Strip(s) == RStrip(LStrip(s))

\* a plausible slip: the empty result is kept instead of becoming None
NormalizeKeepEmpty(value) ==
    IF IsNone(value) THEN None ELSE S(Strip(PyStr(value)))

\* JellyfinAPI._normalize_value (jellyfin_core.py)
NormalizeValue(value) ==
    IF IsNone(value) THEN None
    ELSE LET normalized == Strip(PyStr(value))
         IN IF normalized # <<>> THEN S(normalized) ELSE None

\* JellyfinAPI._normalize_rating_value (commonsense_ratings.py)
NormalizeRatingValue(value) ==
    IF IsNone(value) THEN None
    ELSE LET normalized == Strip(PyStr(value))
         IN IF normalized # <<>> THEN S(normalized) ELSE None

\* Python truthiness of an Optional[str]
Truthy(v) == ~IsNone(v) /\ ~(IsStr(v) /\ v.s = <<>>)

\* ------------------------------------------------------------------------
\* Strings of the rating domain
\* ------------------------------------------------------------------------
sE == <<"E">>
sG == <<"G">>
sPG == <<"P", "G">>
sM == <<"M">>
sMA15 == <<"M", "A", " ", "1", "5", "+">>
sR18 == <<"R", " ", "1", "8", "+">>
sX18 == <<"X", " ", "1", "8", "+">>
sRC == <<"R", "C">>
sPG13 == <<"P", "G", "-", "1", "3">>
sR == <<"R">>
sR18nospace == <<"R", "1", "8", "+">>
sMA15nospace == <<"M", "A", "1", "5", "+">>
sTVG == <<"T", "V", "-", "G">>
sTVPG == <<"T", "V", "-", "P", "G">>
sTV14 == <<"T", "V", "-", "1", "4">>
sTVMA == <<"T", "V", "-", "M", "A">>
sUnrated == <<"U", "n", "r", "a", "t", "e", "d">>
sNotRated == <<"N", "o", "t", " ", "R", "a", "t", "e", "d">>
s12 == <<"1", "2">>          \* a foreign rating the server's rating table knows
sU == <<"U">>                \* a foreign rating nothing maps
sPadM == <<" ", "M", " ">>
sPadPG == <<" ", "P", "G", " ">>
s5 == <<"5">>

\* AUSTRALIAN_RATINGS (aus_rating.py)
AUSTRALIAN_RATINGS == {sE, sG, sPG, sM, sMA15, sR18, sX18, sRC}

\* ------------------------------------------------------------------------
\* Dictionaries (JSON objects) are functions over their keys
\* ------------------------------------------------------------------------
EmptyDict == [k \in {} |-> None]

\* dict.get(key) / dict.get(key, default)
Get(d, k) == IF k \in DOMAIN d THEN d[k] ELSE None

\* d[k] = v
Put(d, k, v) == [x \in DOMAIN d \cup {k} |-> IF x = k THEN v ELSE d[x]]

\* d.update(e)
Update(d, e) == [x \in DOMAIN d \cup DOMAIN e |-> IF x \in DOMAIN e THEN e[x] ELSE d[x]]

\* ------------------------------------------------------------------------
\* The media server
\* ------------------------------------------------------------------------
ItemIds == {"m1", "s1"}
\* the values of jellyfin_core.MediaType
MediaType == {"Movie", "Series"}
ItemType == [i \in ItemIds |-> IF i = "m1" THEN "Movie" ELSE "Series"]
ItemName == [i \in ItemIds |-> IF i = "m1" THEN S(<<"A">>) ELSE S(<<"B">>)]
RatingFields == {"OfficialRating", "CustomRating"}

\* outcomes of one HTTP exchange as the client sees it
ReadOutcomes == {"ok", "error", "empty", "malformed"}
WriteOutcomes == {"ok", "error"}

Req(m, ep, id, ok) == [m |-> m, ep |-> ep, id |-> id, ok |-> ok]

\* ------------------------------------------------------------------------
\* jellyfin_core.py: the reconciler
\* ------------------------------------------------------------------------
\* JellyfinAPI.get_media_item_details: one GET /Items/{id}.  A transport error
\* or a non-2xx answer (a missing item) is caught and gives None; a body that
\* is no JSON makes response.json() raise, which is not caught here.
GetMediaItemDetails(srv, item_id, ro) ==
    [reqs |-> <<Req("GET", "Item", item_id, ro # "error")>>,
     raised |-> (ro = "malformed"),
     value |-> CASE ro = "ok" -> srv[item_id]
                 [] ro = "empty" -> EmptyDict
                 [] OTHER -> None]

\* `not current_data`
NoData(d) == d = None \/ DOMAIN d = {}

\* a plausible slip: raw values compared, no normalization
ChangedFieldsRaw(current, updates) ==
    {f \in DOMAIN updates : Get(current, f) # updates[f]}

\* a plausible slip: every given field is written without comparing
ChangedFieldsAlways(current, updates) == DOMAIN updates

\* the fields of `updates` whose normalized current value differs
ChangedFields(current, updates) ==
    {f \in DOMAIN updates : NormalizeValue(Get(current, f)) # NormalizeValue(updates[f])}

\* a plausible slip: the body is built from the updates alone
PatchedOnlyUpdates(current, updates) == updates

\* current_data after the loop over `updates`
Patched(current, updates) ==
    LET ch == ChangedFields(current, updates)
    IN [f \in DOMAIN current \cup ch |-> IF f \in ch THEN updates[f] ELSE current[f]]

\* a plausible slip: a failed write is sent again
WriteAttemptsRetry(item_id, wo) ==
    IF wo = "ok" THEN <<Req("POST", "Item", item_id, TRUE)>>
    ELSE <<Req("POST", "Item", item_id, FALSE), Req("POST", "Item", item_id, FALSE)>>

\* the POST /Items/{id} requests one invocation issues when a change is needed
WriteAttempts(item_id, wo) == <<Req("POST", "Item", item_id, wo = "ok")>>

\* a plausible slip: a failed read falls through to the write
ReadFailedResultWrites(srv, item_id, read) ==
    [success |-> FALSE, was_updated |-> FALSE, raised |-> FALSE,
     reqs |-> read.reqs \o <<Req("POST", "Item", item_id, TRUE)>>,
     fetched |-> read.value, body |-> None, server |-> srv]

\* `if not current_data: return False, False`
ReadFailedResult(srv, item_id, read) ==
    [success |-> FALSE, was_updated |-> FALSE, raised |-> FALSE,
     reqs |-> read.reqs, fetched |-> read.value, body |-> None, server |-> srv]

\* JellyfinAPI.update_media_metadata.  The result carries the returned pair
\* (success, was_updated), whether an exception left the method, the requests
\* issued, the representation fetched, the body written and the server after.
UpdateMediaMetadata(srv, item_id, updates, ro, wo) ==
    LET read == GetMediaItemDetails(srv, item_id, ro)
        current == read.value
    IN IF read.raised
       THEN [success |-> FALSE, was_updated |-> FALSE, raised |-> TRUE,
             reqs |-> read.reqs, fetched |-> None, body |-> None, server |-> srv]
       ELSE IF NoData(current)
       THEN ReadFailedResult(srv, item_id, read)
       ELSE IF ChangedFields(current, updates) = {}
       THEN [success |-> TRUE, was_updated |-> FALSE, raised |-> FALSE,
             reqs |-> read.reqs, fetched |-> current, body |-> None, server |-> srv]
       ELSE LET body == Patched(current, updates)
                posts == WriteAttempts(item_id, wo)
            IN [success |-> (wo = "ok"), was_updated |-> (wo = "ok"), raised |-> FALSE,
                reqs |-> read.reqs \o posts, fetched |-> current, body |-> body,
                server |-> IF wo = "ok" THEN [srv EXCEPT ![item_id] = body] ELSE srv]

\* JellyfinAPI.update_official_rating
UpdateOfficialRating(srv, item_id, rating, ro, wo) ==
    UpdateMediaMetadata(srv, item_id, [f \in {"OfficialRating"} |-> rating], ro, wo)

\* JellyfinAPI.update_custom_rating
UpdateCustomRating(srv, item_id, rating, ro, wo) ==
    UpdateMediaMetadata(srv, item_id, [f \in {"CustomRating"} |-> rating], ro, wo)

\* the tagged outcome of an invocation
Outcome(r) ==
    CASE r.raised -> "Raised"
      [] r.success /\ r.was_updated -> "Updated"
      [] r.success /\ ~r.was_updated -> "Unchanged"
      [] ~r.success /\ ~r.was_updated -> "Failed"
      [] OTHER -> "Inconsistent"

Posts(reqs) == SelectSeq(reqs, LAMBDA q : q.m = "POST")
ItemGets(reqs) == SelectSeq(reqs, LAMBDA q : q.m = "GET" /\ q.ep = "Item")

\* the record kept of one invocation; the write's fate is noted only if a write was sent
CallRecord(srv, item_id, u, ro, wo, r) ==
    [valid |-> TRUE, item_id |-> item_id, updates |-> u, before |-> srv[item_id],
     ro |-> ro, wo |-> IF Posts(r.reqs) # <<>> THEN wo ELSE "-", res |-> r]

\* what is noted of one pass of a batch loop: the element's position and item,
\* its outcome, the requests issued, whether the reconciler was invoked, the
\* item's record on the server when the pass began, and the exchanges' fates
Entry(at, item_id, outcome, reqs, called, before, ro, wo) ==
    [at |-> at, item_id |-> item_id, outcome |-> outcome, reqs |-> reqs, called |-> called,
     before |-> before,
     ro |-> IF called THEN ro ELSE "-",
     wo |-> IF Posts(reqs) # <<>> THEN wo ELSE "-"]

\* ------------------------------------------------------------------------
\* jellyfin_core.py: users
\* ------------------------------------------------------------------------
UserOutcomes == {"ok", "error"}

\* JellyfinAPI.get_users (refresh_cache = False): (returned list, cache after, requests)
GetUsers(cache, srvUsers, uo) ==
    IF cache = None
    THEN IF uo = "ok"
         THEN [list |-> srvUsers, cache |-> S(srvUsers), reqs |-> <<Req("GET", "Users", "-", TRUE)>>]
         ELSE [list |-> <<>>, cache |-> cache, reqs |-> <<Req("GET", "Users", "-", FALSE)>>]
    ELSE [list |-> cache.s, cache |-> cache, reqs |-> <<>>]

\* the first administrator of a non-empty list, else its first user
FirstAdminOrFirst(list) ==
    IF \E k \in 1..Len(list) : list[k].IsAdministrator
    THEN list[CHOOSE k \in 1..Len(list) :
                  /\ list[k].IsAdministrator
                  /\ \A j \in 1..(k - 1) : ~list[j].IsAdministrator]
    ELSE list[1]

\* JellyfinAPI.get_primary_user: raises JellyfinAPIError on an empty list
GetPrimaryUser(cache, srvUsers, uo) ==
    LET got == GetUsers(cache, srvUsers, uo)
    IN [raised |-> (got.list = <<>>),
        user |-> IF got.list = <<>> THEN None ELSE FirstAdminOrFirst(got.list),
        cache |-> got.cache, reqs |-> got.reqs]

\* MediaLibrary.primary_user: (raised, user, _primary_user after, _users_cache after, requests)
PrimaryUser(primary, cache, srvUsers, uo) ==
    IF primary = None
    THEN LET got == GetPrimaryUser(cache, srvUsers, uo)
         IN [raised |-> got.raised, user |-> got.user,
             primary |-> IF got.raised THEN None ELSE got.user,
             cache |-> got.cache, reqs |-> got.reqs]
    ELSE [raised |-> FALSE, user |-> primary, primary |-> primary, cache |-> cache, reqs |-> <<>>]

\* ------------------------------------------------------------------------
\* jellyfin_core.py: listing
\* ------------------------------------------------------------------------
ListOutcomes == {"ok", "error"}

\* the order in which the server lists its items
ServerOrder == <<"m1", "s1">>

\* items_data of GET /Users/{id}/Items?IncludeItemTypes=<type>
ItemsOfType(type) == SelectSeq(ServerOrder, LAMBDA i : ItemType[i] = type)

\* the MediaItem built from one listed record (ratings normalized)
MakeMediaItem(srv, i, type) ==
    [id |-> i, name |-> Get(srv[i], "Name"), media_type |-> type,
     provider_ids |-> IF "ProviderIds" \in DOMAIN srv[i] THEN srv[i]["ProviderIds"] ELSE EmptyDict,
     official_rating |-> NormalizeValue(Get(srv[i], "OfficialRating")),
     custom_rating |-> NormalizeValue(Get(srv[i], "CustomRating"))]

\* RatedMediaFilter.should_include (aus_rating.py)
RatedMediaFilter(m) ==
    ~IsNone(m.official_rating) /\ Strip(m.official_rating.s) # <<>>

\* one pass of the loop over media_types in JellyfinAPI.get_media_items,
\* with RatedMediaFilter as the filter; a failed listing is skipped
ListType(srv, type, lo) ==
    [reqs |-> <<Req("GET", "List", type, lo = "ok")>>,
     items |-> IF lo = "ok"
               THEN SelectSeq([k \in 1..Len(ItemsOfType(type)) |->
                                   MakeMediaItem(srv, ItemsOfType(type)[k], type)],
                              RatedMediaFilter)
               ELSE <<>>]

\* JellyfinAPI.get_media_items for [MOVIE, SERIES]
GetMediaItems(srv, loMovie, loSeries) ==
    LET a == ListType(srv, "Movie", loMovie)
        b == ListType(srv, "Series", loSeries)
    IN [reqs |-> a.reqs \o b.reqs, items |-> a.items \o b.items]

\* ------------------------------------------------------------------------
\* aus_rating.py: the rating mapper
\* ------------------------------------------------------------------------
ParentalOutcomes == {"ok", "error"}

\* an insertion-ordered dict is a sequence of [k, v] entries with distinct keys
OHas(od, k) == \E n \in 1..Len(od) : od[n].k = k
OGet(od, k) == od[CHOOSE n \in 1..Len(od) : od[n].k = k].v
OPut(od, k, v) ==
    IF OHas(od, k)
    THEN [n \in 1..Len(od) |-> IF od[n].k = k THEN [k |-> k, v |-> v] ELSE od[n]]
    ELSE Append(od, [k |-> k, v |-> v])

RECURSIVE ParentalDict(_, _)
ParentalDict(list, acc) ==
    IF list = <<>> THEN acc
    ELSE ParentalDict(Tail(list),
                      IF Head(list).Name # <<>>
                      THEN OPut(acc, Head(list).Name, Head(list).Value)
                      ELSE acc)

\* JellyfinAPI.get_parental_ratings (jellyfin_core.py): (dict, cache after, requests)
GetParentalRatings(cache, srvParental, po) ==
    IF cache = None
    THEN IF po = "ok"
         THEN [dict |-> ParentalDict(srvParental, <<>>),
               cache |-> [t |-> "odict", d |-> ParentalDict(srvParental, <<>>)],
               reqs |-> <<Req("GET", "ParentalRatings", "-", TRUE)>>]
         ELSE [dict |-> <<>>, cache |-> cache,
               reqs |-> <<Req("GET", "ParentalRatings", "-", FALSE)>>]
    ELSE [dict |-> cache.d, cache |-> cache, reqs |-> <<>>]

\* australian_by_value / non_australian_by_value: the last name listed with the value
NamesByValue(parental, aus) ==
    LET idx == {n \in 1..Len(parental) : (parental[n].k \in AUSTRALIAN_RATINGS) = aus}
        vals == {parental[n].v : n \in idx}
        last(v) == CHOOSE n \in idx : parental[n].v = v
                                      /\ \A j \in idx : parental[j].v = v => j <= n
    IN [v \in vals |-> parental[last(v)].k]

\* the mappings derived from the server's rating values
DerivedMappings(parental) ==
    LET a == NamesByValue(parental, TRUE)
        b == NamesByValue(parental, FALSE)
        both == DOMAIN a \cap DOMAIN b
    IN [name \in {b[v] : v \in both} |-> a[CHOOSE v \in both : b[v] = name]]

DirectPairs ==
    {<<sPG13, sPG>>, <<sR, sR18>>, <<sR18nospace, sR18>>, <<sMA15nospace, sMA15>>,
     <<sTVG, sG>>, <<sTVPG, sPG>>, <<sTV14, sM>>, <<sTVMA, sMA15>>,
     <<sUnrated, sM>>, <<sNotRated, sM>>}

\* a plausible slip: the direct table sends PG-13 to M
DirectMappingsWrong ==
    [k \in {p[1] : p \in DirectPairs} |->
        IF k = sPG13 THEN sM ELSE (CHOOSE p \in DirectPairs : p[1] = k)[2]]

\* direct_mappings
DirectMappings ==
    [k \in {p[1] : p \in DirectPairs} |-> (CHOOSE p \in DirectPairs : p[1] = k)[2]]

\* the table get_rating_mappings builds: derived, then direct, then custom
BuildMappings(parental, custom) ==
    Update(Update(DerivedMappings(parental), DirectMappings), custom)

\* the processor's state: _rating_mappings, the client's _parental_ratings_cache,
\* _unmappable_ratings, and the requests issued so far
\* AustralianRatingProcessor.get_rating_mappings: (mappings, state after)
GetRatingMappings(st, srvParental, po, custom) ==
    IF st.rm # None THEN [mappings |-> st.rm.d, st |-> st]
    ELSE LET got == GetParentalRatings(st.pcache, srvParental, po)
             m == BuildMappings(got.dict, custom)
         IN [mappings |-> m,
             st |-> [st EXCEPT !.rm = [t |-> "dict", d |-> m],
                               !.pcache = got.cache,
                               !.reqs = st.reqs \o got.reqs]]

\* self._unmappable_ratings[rating].append(media_name)
NoteUnmappable(unm, rating, media_name) ==
    OPut(unm, rating, (IF OHas(unm, rating) THEN OGet(unm, rating) ELSE <<>>) \o <<media_name>>)

\* a plausible slip: the mapping tables are consulted before the Australian set
MapToAustralianRatingTablesFirst(st, rating, media_name, srvParental, po, custom) ==
    IF ~Truthy(rating) THEN [value |-> None, st |-> st]
    ELSE LET stripped == Strip(rating.s)
             got == GetRatingMappings(st, srvParental, po, custom)
             mapped == IF stripped \in DOMAIN got.mappings THEN got.mappings[stripped] ELSE <<>>
         IN IF mapped # <<>> THEN [value |-> S(mapped), st |-> got.st]
            ELSE [value |-> S(stripped), st |-> got.st]

\* AustralianRatingProcessor.map_to_australian_rating: (returned value, state after)
MapToAustralianRating(st, rating, media_name, srvParental, po, custom) ==
    IF ~Truthy(rating) THEN [value |-> None, st |-> st]
    ELSE LET stripped == Strip(rating.s)
         IN IF stripped \in AUSTRALIAN_RATINGS THEN [value |-> S(stripped), st |-> st]
            ELSE LET got == GetRatingMappings(st, srvParental, po, custom)
                     mapped == IF stripped \in DOMAIN got.mappings
                               THEN got.mappings[stripped] ELSE <<>>
                 IN IF mapped # <<>>
                    THEN [value |-> S(mapped), st |-> got.st]
                    ELSE [value |-> S(stripped),
                          st |-> [got.st EXCEPT !.unm = NoteUnmappable(got.st.unm, stripped, media_name)]]

\* `x or ""`
OrEmpty(v) == IF Truthy(v) THEN v.s ELSE <<>>

\* the RatingUpdate process_media_ratings creates for one item
MakeRatingUpdate(m, australian) ==
    [item_id |-> m.id, name |-> m.name, media_type |-> m.media_type,
     old_rating |-> OrEmpty(m.official_rating), new_rating |-> OrEmpty(australian),
     success |-> FALSE, was_updated |-> FALSE]

\* AustralianRatingProcessor.process_media_ratings: (rating_updates, state after)
RECURSIVE ProcessMediaRatings(_, _, _, _, _, _)
ProcessMediaRatings(items, st, acc, srvParental, po, custom) ==
    IF items = <<>> THEN [updates |-> acc, st |-> st]
    ELSE LET m == Head(items)
             r == MapToAustralianRating(st, m.official_rating, m.name, srvParental, po, custom)
         IN ProcessMediaRatings(Tail(items), r.st, Append(acc, MakeRatingUpdate(m, r.value)),
                                srvParental, po, custom)

\* ------------------------------------------------------------------------
\* State
\* ------------------------------------------------------------------------
VARIABLES
    mode,          \* what is running: "normalize", "call", "bulk", "aus", "cs"
    pc,            \* its position
    server,        \* the server's record of every item
    users,         \* the server's user list
    parental,      \* the server's parental rating table
    usersCache,    \* JellyfinAPI._users_cache
    primaryUser,   \* MediaLibrary._primary_user
    http,          \* the requests issued by the operation in progress, in order
    lastCall,      \* the last reconciler invocation: arguments, record before, result
    nCalls,        \* direct reconciler calls made
    nEdits,        \* edits made by somebody else
    updates,       \* the batch driver's input sequence
    ratingType,    \* bulk_update_ratings' rating_type
    idx,           \* the batch driver's loop position (next element, from 1)
    counts,        \* the batch driver's counters
    results,       \* per element processed: item, outcome, requests issued
    custom,        \* mappings_data["mappings"] of the custom mappings file
    proc,          \* AustralianRatingProcessor: _rating_mappings, parental cache, _unmappable_ratings
    mediaItems,    \* the listing snapshot of the run
    unmappableFile,\* "unmappable_ratings" of the custom mappings file on disk
    exitCode,      \* the process exit code, None while running
    nValue,        \* the value given to the normalizers
    nCore,         \* JellyfinAPI._normalize_value's result for it
    nRating,       \* _normalize_rating_value's result for it
    cs,            \* the locals of commonsense_ratings.py's main
    selection,     \* candidate selection: the snapshot list, a reordering of it, the results
    prevRun,       \* what is noted of the earlier run or invocation, None in a first one
    an,            \* anime_id_clean.py: the cleaner's state and the locals of run_cleanup
    da             \* reset_dateadded_jellyfin.py: the updater's state and the locals of run

vars == <<mode, pc, server, users, parental, usersCache, primaryUser, http, lastCall,
          nCalls, nEdits, updates, ratingType, idx, counts, results, custom, proc,
          mediaItems, unmappableFile, exitCode, nValue, nCore, nRating, cs, selection, prevRun, an, da>>

Pending == [t |-> "pending"]
NoCall == [valid |-> FALSE]
ZeroCounts == [updated |-> 0, skipped |-> 0, failed |-> 0]
NewProc == [rm |-> None, pcache |-> None, unm |-> <<>>, reqs |-> <<>>]
NewCS ==
    [user_id |-> None, media |-> <<>>, missing_id_media |-> <<>>, ratings |-> EmptyDict,
     returned |-> <<>>, successful_updates |-> 0, skipped_updates |-> 0,
     rated_media |-> <<>>, missing_rating_media |-> <<>>, completed |-> FALSE]

User(id, admin) == [Id |-> id, IsAdministrator |-> admin]
ServerUsers == <<User("u1", FALSE), User("u2", TRUE)>>
ServerParental == <<[Name |-> sM, Value |-> 10], [Name |-> s12, Value |-> 10]>>

Item(i, official) == [f \in {"Name", "OfficialRating"} |-> IF f = "Name" THEN ItemName[i] ELSE official]
ItemWithCustom(i, official, cust) == Put(Item(i, official), "CustomRating", cust)

\* what the variables of the parts that are not running hold
NormalizeIdle == nValue = None /\ nCore = Pending /\ nRating = Pending
BatchIdle ==
    /\ updates = <<>> /\ ratingType = "official" /\ idx = 1
    /\ counts = ZeroCounts /\ results = <<>>
AusIdle == custom = EmptyDict /\ proc = NewProc /\ mediaItems = <<>> /\ unmappableFile = <<>>
CSIdle == cs = NewCS
OtherIdle == selection = None /\ prevRun = None /\ an = None /\ da = None
ClientFresh ==
    /\ users = ServerUsers /\ parental = ServerParental
    /\ usersCache = None /\ primaryUser = None
    /\ http = <<>> /\ lastCall = NoCall /\ nCalls = 0 /\ nEdits = 0 /\ exitCode = None

\* ------------------------------------------------------------------------
\* The normalizers, applied to every small scalar
\* ------------------------------------------------------------------------
NormAlphabet == {" ", "\t", "a", "5"}
NormStrings == UNION {[1..k -> NormAlphabet] : k \in 0..MaxLen}
NormInputs ==
    {None} \cup {S(s) : s \in NormStrings} \cup {I(n) : n \in (-MaxInt)..MaxInt}
           \cup {B(b) : b \in BOOLEAN}

InitNormalize ==
    /\ mode = "normalize" /\ pc = "input"
    /\ nValue \in NormInputs /\ nCore = Pending /\ nRating = Pending
    /\ server = [i \in ItemIds |-> Item(i, None)]
    /\ ClientFresh /\ BatchIdle /\ AusIdle /\ CSIdle /\ OtherIdle

\* both normalizers are applied to the value
Normalize ==
    /\ mode = "normalize" /\ pc = "input"
    /\ nCore' = NormalizeValue(nValue)
    /\ nRating' = NormalizeRatingValue(nValue)
    /\ pc' = "normalized"
    /\ UNCHANGED <<mode, server, users, parental, usersCache, primaryUser, http, lastCall,
                   nCalls, nEdits, updates, ratingType, idx, counts, results, custom, proc,
                   mediaItems, unmappableFile, exitCode, nValue, cs, selection, prevRun, an, da>>

NextNormalize == Normalize

SpecNormalize == InitNormalize /\ [][NextNormalize]_vars

\* ------------------------------------------------------------------------
\* Direct calls of the reconciler
\* ------------------------------------------------------------------------
CallItems == {"m1"}
CallOfficial == {S(sPG13), S(sPadM), None}
CallCustom == {None, I(5), S(<<>>)}
CallUpdates ==
    {[f \in {"OfficialRating"} |-> v] : v \in {S(sPG), S(sM), None}}
    \cup {[f \in {"CustomRating"} |-> v] : v \in {S(s5), None, S(sPG)}}
    \cup {[f \in RatingFields |-> IF f = "OfficialRating" THEN S(sM) ELSE S(s5)]}

InitCall ==
    /\ mode = "call" /\ pc = "ready"
    /\ \E o \in CallOfficial, c \in CallCustom \cup {Pending} :
          server = [i \in ItemIds |->
                      IF i = "s1" THEN Item(i, S(sM))
                      ELSE IF c = Pending THEN Item(i, o) ELSE ItemWithCustom(i, o, c)]
    /\ ClientFresh /\ BatchIdle /\ AusIdle /\ NormalizeIdle /\ CSIdle /\ OtherIdle

\* one invocation of update_media_metadata (update_official_rating and
\* update_custom_rating pass a single field)
CallUpdateMediaMetadata ==
    /\ mode = "call" /\ nCalls < MaxCalls
    /\ \E item_id \in CallItems, u \in CallUpdates, ro \in ReadOutcomes, wo \in WriteOutcomes :
          LET r == UpdateMediaMetadata(server, item_id, u, ro, wo)
          IN /\ lastCall' = CallRecord(server, item_id, u, ro, wo, r)
             /\ server' = r.server
             /\ http' = r.reqs
    /\ nCalls' = nCalls + 1
    /\ pc' = "called"
    /\ UNCHANGED <<mode, users, parental, usersCache, primaryUser, nEdits, updates, ratingType,
                   idx, counts, results, custom, proc, mediaItems, unmappableFile, exitCode,
                   nValue, nCore, nRating, cs, selection, prevRun, an, da>>

\* ------------------------------------------------------------------------
\* jellyfin_core.py: MediaLibrary.bulk_update_ratings
\* ------------------------------------------------------------------------
MaxBatch == 2        \* longest input sequence given to bulk_update_ratings

BulkTriples ==
    {<<"m1", sPG13, S(sPG)>>, <<"m1", sPadM, S(sM)>>, <<"s1", sM, S(sR18)>>}
BulkBatches == UNION {[1..k -> BulkTriples] : k \in 0..MaxBatch}

InitBulk ==
    /\ mode = "bulk" /\ pc = "loop"
    /\ \E o \in {S(sPG13), S(sPadM)} :
          server = [i \in ItemIds |-> IF i = "s1" THEN Item(i, S(sM)) ELSE Item(i, o)]
    /\ updates \in BulkBatches /\ ratingType \in {"official", "custom"}
    /\ idx = 1 /\ counts = ZeroCounts /\ results = <<>>
    /\ ClientFresh /\ AusIdle /\ NormalizeIdle /\ CSIdle /\ OtherIdle

\* a plausible slip: an element whose update raised is not counted at all
CountOutcomeRaisedDropped(c, outcome) ==
    CASE outcome = "Updated" -> [c EXCEPT !.updated = @ + 1]
      [] outcome = "Unchanged" -> [c EXCEPT !.skipped = @ + 1]
      [] outcome = "Raised" -> c
      [] OTHER -> [c EXCEPT !.failed = @ + 1]

\* a plausible slip: an item that raised is counted as skipped
CountOutcomeRaisedSkipped(c, outcome) ==
    CASE outcome = "Updated" -> [c EXCEPT !.updated = @ + 1]
      [] outcome = "Unchanged" -> [c EXCEPT !.skipped = @ + 1]
      [] outcome = "Raised" -> [c EXCEPT !.skipped = @ + 1]
      [] OTHER -> [c EXCEPT !.failed = @ + 1]

\* the counter an element's outcome increments (a caught exception counts as failed)
CountOutcome(c, outcome) ==
    CASE outcome = "Updated" -> [c EXCEPT !.updated = @ + 1]
      [] outcome = "Unchanged" -> [c EXCEPT !.skipped = @ + 1]
      [] OTHER -> [c EXCEPT !.failed = @ + 1]

\* a plausible slip: the loop stops at the first element that fails
NextIndexStopOnFailure(i, n, outcome) ==
    IF outcome \in {"Failed", "Raised"} THEN n + 1 ELSE i + 1

\* where the loop goes after element i of n
NextIndex(i, n, outcome) == i + 1

\* one pass of the loop of bulk_update_ratings: the element at idx
BulkStep ==
    /\ mode = "bulk" /\ pc = "loop" /\ idx <= Len(updates)
    /\ \E uo \in UserOutcomes, ro \in ReadOutcomes, wo \in WriteOutcomes :
          LET item_id == updates[idx][1]
              new_rating == updates[idx][3]
              pu == PrimaryUser(primaryUser, usersCache, users, uo)
              r == IF ratingType = "official"
                   THEN UpdateOfficialRating(server, item_id, new_rating, ro, wo)
                   ELSE UpdateCustomRating(server, item_id, new_rating, ro, wo)
              outcome == IF pu.raised THEN "Raised" ELSE Outcome(r)
              reqs == IF pu.raised THEN pu.reqs ELSE pu.reqs \o r.reqs
          IN /\ primaryUser' = pu.primary
             /\ usersCache' = pu.cache
             /\ server' = IF pu.raised THEN server ELSE r.server
             /\ lastCall' = IF pu.raised THEN lastCall
                            ELSE CallRecord(server, item_id,
                                            [f \in {IF ratingType = "official"
                                                    THEN "OfficialRating"
                                                    ELSE "CustomRating"} |-> new_rating],
                                            ro, wo, r)
             /\ http' = http \o reqs
             /\ counts' = CountOutcome(counts, outcome)
             /\ results' = Append(results, Entry(idx, item_id, outcome, reqs, ~pu.raised,
                                                 server[item_id], ro, wo))
             /\ idx' = NextIndex(idx, Len(updates), outcome)
    /\ UNCHANGED <<mode, pc, users, parental, nCalls, nEdits, updates, ratingType, custom, proc,
                   mediaItems, unmappableFile, exitCode, nValue, nCore, nRating, cs, selection, prevRun, an, da>>

\* bulk_update_ratings returns its three counters
BulkReturn ==
    /\ mode = "bulk" /\ pc = "loop" /\ idx > Len(updates)
    /\ pc' = "returned"
    /\ UNCHANGED <<mode, server, users, parental, usersCache, primaryUser, http, lastCall,
                   nCalls, nEdits, updates, ratingType, idx, counts, results, custom, proc,
                   mediaItems, unmappableFile, exitCode, nValue, nCore, nRating, cs, selection, prevRun, an, da>>

\* ------------------------------------------------------------------------
\* aus_rating.py: a run of the script
\* ------------------------------------------------------------------------
AusOfficialMovie == {S(sPG13), S(sR), S(sPadM), S(sU), S(s12)}
AusOfficialSeries == {S(sM), S(sPG13), None}
CustomChoices ==
    {EmptyDict, [k \in {sPG13} |-> sM], [k \in {sU} |-> sG], [k \in {sM} |-> sG]}

InitAus ==
    /\ mode = "aus" /\ pc = "start"
    /\ \E o1 \in AusOfficialMovie, o2 \in AusOfficialSeries :
          server = [i \in ItemIds |-> IF i = "m1" THEN Item(i, o1) ELSE Item(i, o2)]
    /\ custom \in CustomChoices
    /\ proc = NewProc /\ mediaItems = <<>> /\ unmappableFile = <<>>
    /\ ClientFresh /\ BatchIdle /\ NormalizeIdle /\ CSIdle /\ OtherIdle

AusFrame == <<mode, users, parental, nCalls, ratingType, custom, nValue, nCore, nRating, cs, selection, prevRun, an, da>>

\* main: AustralianRatingMapper.__init__ (create_media_library tests the
\* connection; a failure raises and main returns 1)
AusStart ==
    /\ mode = "aus" /\ pc = "start"
    /\ \E so \in {"ok", "error"} :
          /\ http' = Append(http, Req("GET", "SystemInfo", "-", so = "ok"))
          /\ pc' = IF so = "ok" THEN "fetch" ELSE "exited"
          /\ exitCode' = IF so = "ok" THEN None ELSE I(1)
    /\ UNCHANGED <<server, usersCache, primaryUser, lastCall, nEdits, updates, idx, counts,
                   results, proc, mediaItems, unmappableFile>>
    /\ UNCHANGED AusFrame

\* run: get_media_with_ratings.  primary_user raising ends the run with exit
\* code 1; an empty result ends it with (0, 0, 0) and exit code 0
AusGetMedia ==
    /\ mode = "aus" /\ pc = "fetch"
    /\ \E uo \in UserOutcomes, lm \in ListOutcomes, ls \in ListOutcomes :
          LET pu == PrimaryUser(primaryUser, usersCache, users, uo)
              got == GetMediaItems(server, lm, ls)
          IN /\ primaryUser' = pu.primary
             /\ usersCache' = pu.cache
             /\ IF pu.raised
                THEN /\ http' = http \o pu.reqs
                     /\ mediaItems' = mediaItems
                     /\ pc' = "exited" /\ exitCode' = I(1)
                ELSE /\ http' = http \o pu.reqs \o got.reqs
                     /\ mediaItems' = got.items
                     /\ pc' = IF got.items = <<>> THEN "exited" ELSE "process"
                     /\ exitCode' = IF got.items = <<>> THEN I(0) ELSE None
    /\ UNCHANGED <<server, lastCall, nEdits, updates, idx, counts, results, proc, unmappableFile>>
    /\ UNCHANGED AusFrame

\* run: process_media_ratings over the snapshot
AusProcess ==
    /\ mode = "aus" /\ pc = "process"
    /\ \E po \in ParentalOutcomes :
          LET r == ProcessMediaRatings(mediaItems, proc, <<>>, parental, po, custom)
          IN /\ updates' = r.updates
             /\ proc' = [r.st EXCEPT !.reqs = <<>>]
             /\ http' = http \o r.st.reqs
    /\ idx' = 1 /\ counts' = ZeroCounts /\ results' = <<>>
    /\ pc' = "apply"
    /\ UNCHANGED <<server, usersCache, primaryUser, lastCall, nEdits, mediaItems,
                   unmappableFile, exitCode>>
    /\ UNCHANGED AusFrame

\* one pass of the loop of apply_rating_updates: the element at idx
AusApplyStep ==
    /\ mode = "aus" /\ pc = "apply" /\ idx <= Len(updates)
    /\ \E uo \in UserOutcomes, ro \in ReadOutcomes, wo \in WriteOutcomes :
          LET u == updates[idx]
              call == u.new_rating # u.old_rating
              pu == PrimaryUser(primaryUser, usersCache, users, uo)
              r == UpdateOfficialRating(server, u.item_id, S(u.new_rating), ro, wo)
              outcome == IF ~call THEN "Unchanged"
                         ELSE IF pu.raised THEN "Raised" ELSE Outcome(r)
              reqs == IF ~call THEN <<>>
                      ELSE IF pu.raised THEN pu.reqs ELSE pu.reqs \o r.reqs
              called == call /\ ~pu.raised
          IN /\ primaryUser' = IF call THEN pu.primary ELSE primaryUser
             /\ usersCache' = IF call THEN pu.cache ELSE usersCache
             /\ server' = IF called THEN r.server ELSE server
             /\ lastCall' = IF called
                            THEN CallRecord(server, u.item_id,
                                            [f \in {"OfficialRating"} |-> S(u.new_rating)],
                                            ro, wo, r)
                            ELSE lastCall
             /\ http' = http \o reqs
             /\ counts' = CountOutcome(counts, outcome)
             /\ updates' = [updates EXCEPT
                               ![idx].success = outcome \in {"Updated", "Unchanged"},
                               ![idx].was_updated = (outcome = "Updated")]
             /\ results' = Append(results, Entry(idx, u.item_id, outcome, reqs, called,
                                                 server[u.item_id], ro, wo))
             /\ idx' = NextIndex(idx, Len(updates), outcome)
    /\ UNCHANGED <<pc, nEdits, proc, mediaItems, unmappableFile, exitCode>>
    /\ UNCHANGED AusFrame

Take(s, n) == SubSeq(s, 1, IF Len(s) < n THEN Len(s) ELSE n)

RECURSIVE AddExamples(_, _)
AddExamples(existing, examples) ==
    IF examples = <<>> THEN existing
    ELSE AddExamples(IF (\A k \in 1..Len(existing) : existing[k] # Head(examples))
                        /\ Len(existing) < 5
                     THEN Append(existing, Head(examples)) ELSE existing,
                     Tail(examples))

\* a plausible slip: the entry is counted but the examples are not kept
AddUnmappableRatingCountOnly(list, rating, examples) ==
    IF \E n \in 1..Len(list) : list[n].rating = rating
    THEN LET n == CHOOSE k \in 1..Len(list) :
                      list[k].rating = rating /\ \A j \in 1..(k - 1) : list[j].rating # rating
         IN [list EXCEPT ![n].count = @ + 1]
    ELSE Append(list, [rating |-> rating, count |-> 1, examples |-> <<>>])

\* CustomMappingsManager.add_unmappable_rating (entries in the dict format)
AddUnmappableRating(list, rating, examples) ==
    IF \E n \in 1..Len(list) : list[n].rating = rating
    THEN LET n == CHOOSE k \in 1..Len(list) :
                      list[k].rating = rating /\ \A j \in 1..(k - 1) : list[j].rating # rating
         IN [list EXCEPT ![n].count = @ + 1,
                         ![n].examples = AddExamples(@, examples)]
    ELSE Append(list, [rating |-> rating, count |-> 1, examples |-> Take(examples, 5)])

RECURSIVE FinalizeUnmappable(_, _)
FinalizeUnmappable(list, unm) ==
    IF unm = <<>> THEN list
    ELSE FinalizeUnmappable(AddUnmappableRating(list, Head(unm).k, Head(unm).v), Tail(unm))

\* the end of run and of main: finalize_unmappable_ratings saves the file when
\* something was unmappable, the log is written, and main returns 0 if
\* failed == 0 else 1
AusFinish ==
    /\ mode = "aus" /\ pc = "apply" /\ idx > Len(updates)
    /\ unmappableFile' = IF proc.unm # <<>>
                         THEN FinalizeUnmappable(unmappableFile, proc.unm)
                         ELSE unmappableFile
    /\ exitCode' = IF counts.failed = 0 THEN I(0) ELSE I(1)
    /\ pc' = "exited"
    /\ UNCHANGED <<server, usersCache, primaryUser, http, lastCall, nEdits, updates, idx,
                   counts, results, proc, mediaItems>>
    /\ UNCHANGED AusFrame

\* somebody else changes an item's official rating while the script runs
EditRatings == {S(sPG)}
ExternalEdit ==
    /\ mode = "aus" /\ pc \in {"process", "apply"} /\ nEdits < MaxEdits
    /\ \E i \in ItemIds, v \in EditRatings :
          /\ Get(server[i], "OfficialRating") # v
          /\ server' = [server EXCEPT ![i] = Put(@, "OfficialRating", v)]
    /\ nEdits' = nEdits + 1
    /\ UNCHANGED <<mode, pc, users, parental, usersCache, primaryUser, http, lastCall, nCalls,
                   updates, ratingType, idx, counts, results, custom, proc, mediaItems,
                   unmappableFile, exitCode, nValue, nCore, nRating, cs, selection, prevRun, an, da>>

Init == InitCall \/ InitBulk \/ InitAus

Next ==
    \/ CallUpdateMediaMetadata
    \/ BulkStep
    \/ BulkReturn
    \/ AusStart
    \/ AusGetMedia
    \/ AusProcess
    \/ AusApplyStep
    \/ AusFinish
    \/ ExternalEdit

Spec == Init /\ [][Next]_vars

\* ------------------------------------------------------------------------
\* commonsense_ratings.py: the Common Sense rating updater
\* ------------------------------------------------------------------------
CUSTOM_RATING_FIELD == "CustomRating"
PROVIDER_PRIORITY == <<"Imdb", "Tmdb", "Trakt", "Tvdb">>
BATCH_SIZE == 200

\* provider.lower()
ProviderLower(p) ==
    CASE p = "Imdb" -> "imdb"
      [] p = "Tmdb" -> "tmdb"
      [] p = "Trakt" -> "trakt"
      [] p = "Tvdb" -> "tvdb"

sTT1 == <<"t", "t", "1">>
s7 == <<"7">>
sUnknown == <<"U", "n", "k", "n", "o", "w", "n">>

\* a GET /Items/{id} answer as update_commonsense_rating sees it
CSReadOutcomes == {"ok", "error", "malformed"}

\* CommonSenseRating(commonsense, age_rating)
CommonSenseRating(commonsense, age_rating) ==
    [commonsense |-> commonsense, age_rating |-> age_rating]

\* JellyfinAPI.get_user_id: the first user's Id; a transport error is logged
\* and raised again, an empty list raises ValueError
GetUserId(srvUsers, uo) ==
    IF uo = "error"
    THEN [raised |-> TRUE, value |-> None, reqs |-> <<Req("GET", "Users", "-", FALSE)>>]
    ELSE [raised |-> (srvUsers = <<>>),
          value |-> IF srvUsers = <<>> THEN None ELSE S(<<srvUsers[1].Id>>),
          reqs |-> <<Req("GET", "Users", "-", TRUE)>>]

\* position in PROVIDER_PRIORITY of the first provider whose id is truthy and
\* not yet used, 0 when there is none
SelectedProvider(provider_ids, used_ids) ==
    LET usable(k) ==
            /\ Truthy(Get(provider_ids, PROVIDER_PRIORITY[k]))
            /\ Get(provider_ids, PROVIDER_PRIORITY[k]) \notin used_ids
    IN IF \E k \in 1..Len(PROVIDER_PRIORITY) : usable(k)
       THEN CHOOSE k \in 1..Len(PROVIDER_PRIORITY) :
                usable(k) /\ \A j \in 1..(k - 1) : ~usable(j)
       ELSE 0

\* MediaData built from a listed record and the provider selected for it
MediaData(id, item, media_type, k) ==
    [id |-> id,
     name |-> IF "Name" \in DOMAIN item THEN item["Name"] ELSE S(sUnknown),
     media_type |-> media_type,
     provider |-> ProviderLower(PROVIDER_PRIORITY[k]),
     external_id |-> item["ProviderIds"][PROVIDER_PRIORITY[k]],
     custom_rating |-> Get(item, CUSTOM_RATING_FIELD)]

\* the loop over items of JellyfinAPI._get_media_by_type
RECURSIVE ScanItems(_, _, _, _, _, _)
ScanItems(srv, ids, media_type, used_ids, media_with_ids, media_missing_ids) ==
    IF ids = <<>>
    THEN [media_with_ids |-> media_with_ids, media_missing_ids |-> media_missing_ids]
    ELSE LET item == srv[Head(ids)]
             provider_ids == IF "ProviderIds" \in DOMAIN item
                             THEN item["ProviderIds"] ELSE EmptyDict
             k == SelectedProvider(provider_ids, used_ids)
         IN IF k # 0
            THEN ScanItems(srv, Tail(ids), media_type,
                           used_ids \cup {provider_ids[PROVIDER_PRIORITY[k]]},
                           Append(media_with_ids, MediaData(Head(ids), item, media_type, k)),
                           media_missing_ids)
            ELSE ScanItems(srv, Tail(ids), media_type, used_ids, media_with_ids,
                           Append(media_missing_ids,
                                  IF "Name" \in DOMAIN item THEN item["Name"] ELSE S(sUnknown)))

\* JellyfinAPI._get_media_by_type: a failed listing is logged and raised again
GetMediaByType(srv, media_type, lo) ==
    IF lo = "error"
    THEN [raised |-> TRUE, media_with_ids |-> <<>>, media_missing_ids |-> <<>>,
          reqs |-> <<Req("GET", "List", media_type, FALSE)>>]
    ELSE LET r == ScanItems(srv, ItemsOfType(media_type), media_type, {}, <<>>, <<>>)
         IN [raised |-> FALSE, media_with_ids |-> r.media_with_ids,
             media_missing_ids |-> r.media_missing_ids,
             reqs |-> <<Req("GET", "List", media_type, TRUE)>>]

\* JellyfinAPI.get_all_media for [MOVIE, SERIES]; the dict keyed by item id is
\* kept as the sequence of its values in insertion order
GetAllMedia(srv, loMovie, loSeries) ==
    LET a == GetMediaByType(srv, "Movie", loMovie)
        b == GetMediaByType(srv, "Series", loSeries)
    IN IF a.raised
       THEN [raised |-> TRUE, media |-> <<>>, missing |-> <<>>, reqs |-> a.reqs]
       ELSE [raised |-> b.raised,
             media |-> a.media_with_ids \o b.media_with_ids,
             missing |-> a.media_missing_ids \o b.media_missing_ids,
             reqs |-> a.reqs \o b.reqs]

\* the distinct elements of a sequence in order of first appearance (the key
\* order of a dict filled in that order)
RECURSIVE FirstAppearances(_)
FirstAppearances(s) ==
    IF s = <<>> THEN <<>>
    ELSE LET r == FirstAppearances(SubSeq(s, 1, Len(s) - 1))
         IN IF \E k \in 1..Len(r) : r[k] = s[Len(s)] THEN r ELSE Append(r, s[Len(s)])

RECURSIVE ConcatAll(_)
ConcatAll(ss) == IF ss = <<>> THEN <<>> ELSE Head(ss) \o ConcatAll(Tail(ss))

\* CommonSenseProcessor.chunk_list
RECURSIVE ChunkList(_, _)
ChunkList(items, chunk_size) ==
    IF items = <<>> THEN <<>>
    ELSE IF Len(items) <= chunk_size THEN <<items>>
    ELSE <<SubSeq(items, 1, chunk_size)>>
             \o ChunkList(SubSeq(items, chunk_size + 1, Len(items)), chunk_size)

\* grouped_data of get_all_commonsense_ratings, flattened to the requests it
\* leads to, in order: by provider, then by media type, then by chunk
RatingRequests(media) ==
    LET providers == FirstAppearances([k \in 1..Len(media) |-> media[k].provider])
        of(p) == SelectSeq(media, LAMBDA m : m.provider = p)
        types(p) == FirstAppearances([k \in 1..Len(of(p)) |-> of(p)[k].media_type])
        ids(p, t) == LET sel == SelectSeq(of(p), LAMBDA m : m.media_type = t)
                     IN [k \in 1..Len(sel) |-> sel[k].external_id]
        chunks(p, t) == LET c == ChunkList(ids(p, t), BATCH_SIZE)
                        IN [k \in 1..Len(c) |-> [provider |-> p, media_type |-> t, ids |-> c[k]]]
        ofProvider(p) == ConcatAll([k \in 1..Len(types(p)) |-> chunks(p, types(p)[k])])
    IN ConcatAll([k \in 1..Len(providers) |-> ofProvider(providers[k])])

\* MDBListAPI.get_commonsense_ratings_batch: POST {base}/{provider}/{endpoint}
\* with the ids; the entries of the answer, keyed by the id alone; a failed
\* request is logged and gives {}.  The service keeps its titles by
\* (provider, media type, id).
GetCommonSenseRatingsBatch(db, provider, media_type, ids, mo) ==
    IF mo = "ok"
    THEN [x \in {y \in {ids[k] : k \in 1..Len(ids)} : <<provider, media_type, y>> \in DOMAIN db}
             |-> db[<<provider, media_type, x>>]]
    ELSE EmptyDict

\* the loop of get_all_commonsense_ratings over the requests from the n-th on
RECURSIVE AllRatings(_, _, _, _, _)
AllRatings(db, requests, mos, n, all_ratings) ==
    IF n > Len(requests) THEN all_ratings
    ELSE AllRatings(db, requests, mos, n + 1,
                    Update(all_ratings,
                           GetCommonSenseRatingsBatch(db, requests[n].provider,
                                                      requests[n].media_type,
                                                      requests[n].ids, mos[n])))

\* CommonSenseProcessor.get_all_commonsense_ratings
GetAllCommonSenseRatings(media, db, mos) ==
    LET requests == RatingRequests(media)
    IN [ratings |-> AllRatings(db, requests, mos, 1, EmptyDict),
        returned |-> [k \in 1..Len(requests) |->
                         [provider |-> requests[k].provider,
                          media_type |-> requests[k].media_type,
                          ratings |-> GetCommonSenseRatingsBatch(
                                          db, requests[k].provider, requests[k].media_type,
                                          requests[k].ids, mos[k])]],
        reqs |-> [k \in 1..Len(requests) |->
                     Req("POST", "MDBList", requests[k].provider, mos[k] = "ok")]]

\* JellyfinAPI.update_commonsense_rating.  A body that is no JSON makes
\* response.json() raise: the installed requests library decides whether that
\* exception is a RequestException (caught here) or a plain ValueError.
UpdateCommonSenseRating(srv, item_id, commonsense_rating, ro, wo, jsonErrorCaught) ==
    LET get(ok) == <<Req("GET", "Item", item_id, ok)>>
        data == srv[item_id]
        current_custom == NormalizeRatingValue(Get(data, CUSTOM_RATING_FIELD))
        new_custom == NormalizeRatingValue(commonsense_rating)
        body == Put(data, CUSTOM_RATING_FIELD, commonsense_rating)
        fail(reqs, raised) ==
            [success |-> FALSE, was_updated |-> FALSE, raised |-> raised, reqs |-> reqs,
             fetched |-> None, body |-> None, server |-> srv]
    IN CASE ro = "error" -> fail(get(FALSE), FALSE)
         [] ro = "malformed" -> fail(get(TRUE), ~jsonErrorCaught)
         [] OTHER ->
              IF new_custom # None /\ current_custom # new_custom
              THEN IF wo = "ok"
                   THEN [success |-> TRUE, was_updated |-> TRUE, raised |-> FALSE,
                         reqs |-> get(TRUE) \o <<Req("POST", "Item", item_id, TRUE)>>,
                         fetched |-> data, body |-> body,
                         server |-> [srv EXCEPT ![item_id] = body]]
                   ELSE [fail(get(TRUE) \o <<Req("POST", "Item", item_id, FALSE)>>, FALSE)
                            EXCEPT !.fetched = data, !.body = body]
              ELSE [success |-> TRUE, was_updated |-> FALSE, raised |-> FALSE,
                    reqs |-> get(TRUE), fetched |-> data, body |-> None, server |-> srv]

\* a service that knows the same title under an id for every provider and
\* media type
AnyTitle(by_id) ==
    [key \in {"imdb", "tmdb"} \X MediaType \X DOMAIN by_id |-> by_id[key[3]]]

\* what the ratings service knows; in the last one TMDB's movie 7 and TMDB's
\* show 7 are different titles, as TMDB numbers movies and shows separately
MDBChoices ==
    {EmptyDict,
     AnyTitle([x \in {S(sTT1)} |-> CommonSenseRating(B(TRUE), I(5))]),
     AnyTitle([x \in {S(sTT1), S(s7)} |->
                  IF x = S(sTT1) THEN CommonSenseRating(B(TRUE), I(5))
                  ELSE CommonSenseRating(None, None)]),
     AnyTitle([x \in {S(sTT1), S(s7)} |-> CommonSenseRating(B(TRUE), S(s5))]),
     [key \in {"tmdb"} \X MediaType \X {S(s7)} |->
         IF key[2] = "Movie" THEN CommonSenseRating(B(TRUE), I(5))
         ELSE CommonSenseRating(B(TRUE), I(MaxInt))]}

\* the provider ids an item may carry on the server
ProviderIdChoices ==
    {EmptyDict,
     [p \in {"Imdb"} |-> S(sTT1)],
     [p \in {"Imdb", "Tmdb"} |-> IF p = "Imdb" THEN S(<<>>) ELSE S(s7)]}

CSItem(i, pids, cust) ==
    LET base == [f \in {"Name", "ProviderIds"} |-> IF f = "Name" THEN ItemName[i] ELSE pids]
    IN IF cust = Pending THEN base ELSE Put(base, CUSTOM_RATING_FIELD, cust)

InitCS ==
    /\ mode = "cs" /\ pc = "start"
    /\ \E p1 \in ProviderIdChoices, p2 \in ProviderIdChoices, c1 \in {Pending, S(s5)} :
          server = [i \in ItemIds |-> IF i = "m1" THEN CSItem(i, p1, c1)
                                      ELSE CSItem(i, p2, Pending)]
    /\ users \in {ServerUsers, <<>>}
    /\ parental = ServerParental /\ usersCache = None /\ primaryUser = None
    /\ http = <<>> /\ lastCall = NoCall /\ nCalls = 0 /\ nEdits = 0 /\ exitCode = None
    /\ BatchIdle /\ AusIdle /\ NormalizeIdle /\ CSIdle /\ OtherIdle

CSFrame == <<mode, server, users, parental, usersCache, primaryUser, lastCall, nCalls, nEdits,
             updates, ratingType, counts, custom, proc, mediaItems, unmappableFile,
             nValue, nCore, nRating, selection, prevRun, an, da>>

\* main: get_user_id.  An exception leaves main (logged and raised again):
\* the interpreter ends with exit code 1.
CSGetUser ==
    /\ mode = "cs" /\ pc = "start"
    /\ \E uo \in UserOutcomes :
          LET r == GetUserId(users, uo)
          IN /\ http' = http \o r.reqs
             /\ cs' = [cs EXCEPT !.user_id = r.value]
             /\ pc' = IF r.raised THEN "exited" ELSE "fetch"
             /\ exitCode' = IF r.raised THEN I(1) ELSE None
    /\ UNCHANGED <<idx, results>>
    /\ UNCHANGED CSFrame

\* main: get_all_media, and the return when nothing has a usable provider id
\* (main returns None: exit code 0)
CSGetMedia ==
    /\ mode = "cs" /\ pc = "fetch"
    /\ \E loMovie \in ListOutcomes, loSeries \in ListOutcomes :
          LET r == GetAllMedia(server, loMovie, loSeries)
          IN /\ http' = http \o r.reqs
             /\ cs' = [cs EXCEPT !.media = r.media, !.missing_id_media = r.missing,
                                 !.completed = ~r.raised /\ r.media = <<>>]
             /\ pc' = IF r.raised \/ r.media = <<>> THEN "exited" ELSE "ratings"
             /\ exitCode' = CASE r.raised -> I(1)
                              [] r.media = <<>> -> I(0)
                              [] OTHER -> None
    /\ UNCHANGED <<idx, results>>
    /\ UNCHANGED CSFrame

\* main: get_all_commonsense_ratings
CSGetRatings ==
    /\ mode = "cs" /\ pc = "ratings"
    /\ \E db \in MDBChoices, mos \in [1..Len(RatingRequests(cs.media)) -> {"ok", "error"}] :
          LET r == GetAllCommonSenseRatings(cs.media, db, mos)
          IN /\ http' = http \o r.reqs
             /\ cs' = [cs EXCEPT !.ratings = r.ratings, !.returned = r.returned]
    /\ pc' = "loop"
    /\ UNCHANGED <<idx, results, exitCode>>
    /\ UNCHANGED CSFrame

\* main: one pass of the loop over media.values()
CSUpdateStep ==
    /\ mode = "cs" /\ pc = "loop" /\ idx <= Len(cs.media)
    /\ \E ro \in CSReadOutcomes, wo \in WriteOutcomes, jsonErrorCaught \in BOOLEAN :
          LET media_item == cs.media[idx]
              rating_info == IF media_item.external_id \in DOMAIN cs.ratings
                             THEN cs.ratings[media_item.external_id]
                             ELSE CommonSenseRating(None, None)
              r == UpdateCommonSenseRating(server, media_item.id, rating_info.age_rating,
                                           ro, wo, jsonErrorCaught)
              rated == Truthy(rating_info.age_rating)
          IN /\ (ro = "malformed" \/ jsonErrorCaught)   \* the choice matters for such a body only
             /\ server' = r.server
             /\ http' = http \o r.reqs
             /\ results' = Append(results, Entry(idx, media_item.id, Outcome(r), r.reqs, TRUE,
                                                 server[media_item.id], ro, wo))
             /\ lastCall' = CallRecord(server, media_item.id,
                                        [f \in {CUSTOM_RATING_FIELD} |-> rating_info.age_rating],
                                        ro, wo, r)
             /\ IF r.raised
                THEN /\ pc' = "exited" /\ exitCode' = I(1)
                     /\ UNCHANGED <<cs, idx>>
                ELSE /\ cs' = [cs EXCEPT
                                 !.successful_updates =
                                     IF r.success /\ r.was_updated THEN @ + 1 ELSE @,
                                 !.skipped_updates =
                                     IF r.success /\ ~r.was_updated THEN @ + 1 ELSE @,
                                 !.rated_media =
                                     IF rated THEN Append(@, media_item.id) ELSE @,
                                 !.missing_rating_media =
                                     IF rated THEN @ ELSE Append(@, media_item.id)]
                     /\ idx' = idx + 1
                     /\ UNCHANGED <<pc, exitCode>>
    /\ UNCHANGED <<mode, users, parental, usersCache, primaryUser, nCalls, nEdits,
                   updates, ratingType, counts, custom, proc, mediaItems, unmappableFile,
                   nValue, nCore, nRating, selection, prevRun, an, da>>

\* main: the log file and the summary; main returns None and the module calls
\* main() without passing its result to exit: the exit code is 0
CSFinish ==
    /\ mode = "cs" /\ pc = "loop" /\ idx > Len(cs.media)
    /\ cs' = [cs EXCEPT !.completed = TRUE]
    /\ exitCode' = I(0)
    /\ pc' = "exited"
    /\ UNCHANGED <<http, idx, results>>
    /\ UNCHANGED CSFrame

NextCS ==
    \/ CSGetUser
    \/ CSGetMedia
    \/ CSGetRatings
    \/ CSUpdateStep
    \/ CSFinish

SpecCS == InitCS /\ [][NextCS]_vars

\* ------------------------------------------------------------------------
\* aus_rating.py: the rating mapper started a second time
\* ------------------------------------------------------------------------
\* The script is started again after it has exited: a new process, with new
\* caches and an empty log, against the server and the mappings file as the
\* first run left them.
InitAusRerun ==
    /\ mode = "aus" /\ pc = "start"
    /\ \E o1 \in {S(sPG13), S(sU), S(s12)}, o2 \in {S(sM), S(sU)} :
          server = [i \in ItemIds |-> IF i = "m1" THEN Item(i, o1) ELSE Item(i, o2)]
    /\ custom \in {EmptyDict, [k \in {sU} |-> sG], [k \in {sU} |-> sTV14]}
    /\ unmappableFile \in
          {<<>>,
           <<[rating |-> sU, count |-> 1, examples |-> <<S(<<"C">>)>>]>>,
           <<[rating |-> sU, count |-> 7,
              examples |-> <<S(<<"C">>), S(<<"D">>), S(<<"E">>), S(<<"F">>), S(<<"G">>)>>]>>}
    /\ proc = NewProc /\ mediaItems = <<>>
    /\ ClientFresh /\ BatchIdle /\ NormalizeIdle /\ CSIdle /\ OtherIdle

\* what is kept of the run that has ended: whether both listings answered,
\* the tables it built, its counters and whether the server rejected a write
NoteRun ==
    [listed |-> Len(SelectSeq(http, LAMBDA q : q.ep = "List" /\ q.ok)) = 2,
     rm |-> proc.rm,
     counts |-> counts,
     rejected |-> \E k \in 1..Len(results) : results[k].wo = "error"]

AusRerun ==
    /\ mode = "aus" /\ pc = "exited" /\ prevRun = None
    /\ prevRun' = NoteRun
    /\ pc' = "start" /\ exitCode' = None
    /\ usersCache' = None /\ primaryUser' = None /\ http' = <<>> /\ lastCall' = NoCall
    /\ updates' = <<>> /\ idx' = 1 /\ counts' = ZeroCounts /\ results' = <<>>
    /\ proc' = NewProc /\ mediaItems' = <<>>
    /\ UNCHANGED <<mode, server, users, parental, nCalls, nEdits, ratingType, custom,
                   unmappableFile, nValue, nCore, nRating, cs, selection, an, da>>

\* update_media_metadata invoked once more with the arguments of the
\* invocation just made; the earlier invocation's record is kept
CallAgain ==
    /\ mode = "call" /\ pc = "called" /\ lastCall.valid
    /\ \E ro \in ReadOutcomes, wo \in WriteOutcomes :
          LET r == UpdateMediaMetadata(server, lastCall.item_id, lastCall.updates, ro, wo)
          IN /\ lastCall' = CallRecord(server, lastCall.item_id, lastCall.updates, ro, wo, r)
             /\ server' = r.server
             /\ http' = r.reqs
    /\ prevRun' = lastCall
    /\ pc' = "repeated"
    /\ UNCHANGED <<mode, users, parental, usersCache, primaryUser, nCalls, nEdits, updates,
                   ratingType, idx, counts, results, custom, proc, mediaItems, unmappableFile,
                   exitCode, nValue, nCore, nRating, cs, selection, an, da>>

InitRerun == InitAusRerun \/ InitCall

NextRerun ==
    \/ AusStart
    \/ AusGetMedia
    \/ AusProcess
    \/ AusApplyStep
    \/ AusFinish
    \/ AusRerun
    \/ CallUpdateMediaMetadata
    \/ CallAgain

SpecRerun == InitRerun /\ [][NextRerun]_vars

\* ------------------------------------------------------------------------
\* Candidate selection over a listing
\* ------------------------------------------------------------------------
\* MediaFilter.should_include for a ProviderIDFilter (any required provider is
\* a key of provider_ids), a RatingFilter (a required rating is truthy) and a
\* CombinedFilter (every filter passes)
ShouldInclude(f, m) ==
    LET one(g) ==
            CASE g.kind = "provider" ->
                   \E k \in 1..Len(g.required) : g.required[k] \in DOMAIN m.provider_ids
              [] g.kind = "rating" ->
                   /\ g.official => Truthy(m.official_rating)
                   /\ g.custom => Truthy(m.custom_rating)
    IN IF f.kind = "combined"
       THEN \A k \in 1..Len(f.filters) : one(f.filters[k])
       ELSE one(f)

\* the loop over items_data of JellyfinAPI.get_media_items with a filter
FilterItems(srv, ids, type, f) ==
    SelectSeq([k \in 1..Len(ids) |-> MakeMediaItem(srv, ids[k], type)],
              LAMBDA m : ShouldInclude(f, m))

IdsOf(items) == {items[k].id : k \in 1..Len(items)}

SelectIds == {"a", "b", "c"}
SelectOrders ==
    {<<"a", "b", "c">>, <<"a", "c", "b">>, <<"b", "a", "c">>,
     <<"b", "c", "a">>, <<"c", "a", "b">>, <<"c", "b", "a">>}
SelectProviderIds ==
    {EmptyDict,
     [p \in {"Imdb"} |-> S(sTT1)],
     [p \in {"Tmdb"} |-> S(s7)],
     [p \in {"Imdb", "Tmdb"} |-> IF p = "Imdb" THEN S(sTT1) ELSE S(s7)]}
SelectFilters ==
    {[kind |-> "provider", required |-> <<"Imdb", "Tmdb", "Trakt", "Tvdb">>],
     [kind |-> "provider", required |-> <<"Tmdb">>],
     [kind |-> "rating", official |-> TRUE, custom |-> FALSE],
     [kind |-> "combined",
      filters |-> <<[kind |-> "provider", required |-> <<"Imdb">>],
                    [kind |-> "rating", official |-> TRUE, custom |-> FALSE]>>]}

\* a listing of three movies and the same listing in another order
InitSelect ==
    /\ mode = "select" /\ pc = "ready"
    /\ \E pa \in SelectProviderIds, pb \in SelectProviderIds, pc3 \in SelectProviderIds,
          o \in {None, S(sM)} :
          server = [i \in SelectIds |->
                      [f \in {"Name", "ProviderIds", "OfficialRating"} |->
                          CASE f = "Name" -> S(<<i>>)
                            [] f = "ProviderIds" ->
                                 IF i = "a" THEN pa ELSE IF i = "b" THEN pb ELSE pc3
                            [] OTHER -> IF i = "a" THEN o ELSE S(sPG)]]
    /\ \E order \in SelectOrders :
          selection = [listed |-> <<"a", "b", "c">>, reordered |-> order,
                       core |-> Pending, commonsense |-> Pending]
    /\ users = ServerUsers /\ parental = ServerParental
    /\ usersCache = None /\ primaryUser = None
    /\ http = <<>> /\ lastCall = NoCall /\ nCalls = 0 /\ nEdits = 0 /\ exitCode = None
    /\ BatchIdle /\ AusIdle /\ NormalizeIdle /\ CSIdle
    /\ prevRun = None /\ an = None /\ da = None

SelectFrame == <<mode, pc, server, users, parental, usersCache, primaryUser, http, lastCall,
                 nCalls, nEdits, updates, ratingType, idx, counts, results, custom, proc,
                 mediaItems, unmappableFile, exitCode, nValue, nCore, nRating, cs,
                 prevRun, an, da>>

\* a core filter applied to the listing, to the listing again, and to the
\* reordered listing
SelectCore ==
    /\ mode = "select" /\ selection.core = Pending
    /\ \E f \in SelectFilters :
          selection' = [selection EXCEPT !.core =
              [filter |-> f,
               first |-> IdsOf(FilterItems(server, selection.listed, "Movie", f)),
               again |-> IdsOf(FilterItems(server, selection.listed, "Movie", f)),
               other |-> IdsOf(FilterItems(server, selection.reordered, "Movie", f))]]
    /\ UNCHANGED SelectFrame

\* the loop of _get_media_by_type applied in the same three ways
SelectCommonSense ==
    /\ mode = "select" /\ selection.commonsense = Pending
    /\ selection' = [selection EXCEPT !.commonsense =
          [first |-> IdsOf(ScanItems(server, selection.listed, "Movie", {}, <<>>, <<>>).media_with_ids),
           again |-> IdsOf(ScanItems(server, selection.listed, "Movie", {}, <<>>, <<>>).media_with_ids),
           other |-> IdsOf(ScanItems(server, selection.reordered, "Movie", {}, <<>>, <<>>).media_with_ids)]]
    /\ UNCHANGED SelectFrame

NextSelect ==
    \/ SelectCore
    \/ SelectCommonSense

SpecSelect == InitSelect /\ [][NextSelect]_vars

\* ------------------------------------------------------------------------
\* reset_dateadded_jellyfin.py: the date-added updater
\* ------------------------------------------------------------------------
\* Strings are sequences of characters.  Dates are counted in half seconds,
\* so that a fraction of a second can be told from a whole one.
Date(n) == [t |-> "date", n |-> n]
NoFile == [t |-> "nofile"]
CacheFile(movies) == [t |-> "file", movies |-> movies]

\* str.lower over the letters used
Lower(s) ==
    LET lower == [c \in {"A", "B", "E", "I", "M", "N", "T", "V"} |->
                     CASE c = "A" -> "a" [] c = "B" -> "b" [] c = "E" -> "e"
                       [] c = "I" -> "i" [] c = "M" -> "m" [] c = "N" -> "n"
                       [] c = "T" -> "t" [] OTHER -> "v"]
    IN [k \in 1..Len(s) |-> IF s[k] \in DOMAIN lower THEN lower[s[k]] ELSE s[k]]

\* a in b, for strings
Contains(a, b) ==
    \E i \in 0..(Len(b) - Len(a)) : SubSeq(b, i + 1, i + Len(a)) = a

\* RadarrMovieCache._normalize_title: lower case, punctuation removed
NormalizeTitle(title) == SelectSeq(Lower(title), LAMBDA c : c # ".")

\* a movie as Radarr's /api/v3/movie gives it (no year)
RadarrMovie(id, folder, tmdb, title) ==
    [id |-> id, path |-> folder, tmdbId |-> tmdb, imdbId |-> <<>>, title |-> title]

\* RadarrMovieCache.load_movies_from_cache: [] when the file is missing
LoadMoviesFromCache(file) == IF file = NoFile THEN <<>> ELSE file.movies

\* RadarrMovieCache.movies_lookup: by folder name, a later movie replaces an earlier one
MoviesLookup(movies) ==
    [f \in {movies[k].path : k \in 1..Len(movies)} |->
        movies[CHOOSE k \in 1..Len(movies) :
                  movies[k].path = f /\ \A j \in (k + 1)..Len(movies) : movies[j].path # f]]

\* RadarrMovieCache.title_lookup: by normalized title, for movies with a title
TitleLookup(movies) ==
    LET titled == SelectSeq(movies, LAMBDA m : m.title # <<>>)
    IN [t \in {NormalizeTitle(titled[k].title) : k \in 1..Len(titled)} |->
           titled[CHOOSE k \in 1..Len(titled) :
                     /\ NormalizeTitle(titled[k].title) = t
                     /\ \A j \in (k + 1)..Len(titled) : NormalizeTitle(titled[j].title) # t]]

\* RadarrMovieCache.get_movie_by_title without a year: the movie or None, and
\* whether the cache file was read for the partial-match fallback
GetMovieByTitle(title_lookup, file, title) ==
    LET normalized == NormalizeTitle(title)
        partial == SelectSeq(LoadMoviesFromCache(file),
                             LAMBDA m : \/ Contains(normalized, NormalizeTitle(m.title))
                                        \/ Contains(NormalizeTitle(m.title), normalized))
    IN IF normalized \in DOMAIN title_lookup
       THEN [movie |-> title_lookup[normalized], read |-> FALSE]
       ELSE [movie |-> IF partial # <<>> THEN partial[1] ELSE None, read |-> TRUE]

\* JellyfinDateAddedUpdater.find_jellyfin_movie: TMDB id, IMDB id, title, folder name
FindJellyfinMovie(jellyfin_movies, folder_name, radarr_movie) ==
    LET byTmdb == SelectSeq(jellyfin_movies,
                      LAMBDA m : Get(m.provider_ids, "Tmdb") = S(radarr_movie.tmdbId))
        byImdb == SelectSeq(jellyfin_movies,
                      LAMBDA m : Get(m.provider_ids, "Imdb") = S(radarr_movie.imdbId))
        title == NormalizeTitle(radarr_movie.title)
        byTitle == SelectSeq(jellyfin_movies,
                      LAMBDA m : \/ Contains(title, NormalizeTitle(m.name.s))
                                 \/ Contains(NormalizeTitle(m.name.s), title))
        byFolder == SelectSeq(jellyfin_movies,
                      LAMBDA m : \/ Contains(Lower(folder_name), Lower(m.name.s))
                                 \/ Contains(Lower(m.name.s), Lower(folder_name)))
    IN IF radarr_movie.tmdbId # <<>> /\ byTmdb # <<>> THEN byTmdb[1]
       ELSE IF radarr_movie.imdbId # <<>> /\ byImdb # <<>> THEN byImdb[1]
       ELSE IF radarr_movie.title # <<>> /\ byTitle # <<>> THEN byTitle[1]
       ELSE IF byFolder # <<>> THEN byFolder[1]
       ELSE None

\* strftime('%Y-%m-%dT%H:%M:%S.0000000Z'): the fraction of a second is dropped
FormatDate(n) == n - (n % 2)

\* abs((a - b).total_seconds()) < 1
SameDate(a, b) == (IF a < b THEN b - a ELSE a - b) < 2

\* get_dateadded_for_movie: Radarr's first import date, else the oldest
\* file's date, else None
GetDateaddedForMovie(ho) ==
    CASE ho = "radarr" -> Date(11)
      [] ho = "file" -> Date(20)
      [] OTHER -> None

\* the result dict of process_movie_directory
DirResult(folder_name, status, success, was_updated, item) ==
    [folder_name |-> folder_name, status |-> status, success |-> success,
     was_updated |-> was_updated, jellyfin_movie_id |-> item]

\* the result dict after update_jellyfin_dateadded returned (success, was_updated)
UpdateResult(folder_name, item, success, was_updated) ==
    DirResult(folder_name,
              IF was_updated THEN "updated" ELSE IF success THEN "no_change_needed" ELSE "failed",
              success, was_updated, item)

\* one pass of the loop over media_types in JellyfinAPI.get_media_items
\* without a filter; a failed listing is skipped
ListAll(srv, type, lo) ==
    [reqs |-> <<Req("GET", "List", type, lo = "ok")>>,
     items |-> IF lo = "ok"
               THEN [k \in 1..Len(ItemsOfType(type)) |->
                         MakeMediaItem(srv, ItemsOfType(type)[k], type)]
               ELSE <<>>]

\* something done to the cache file, to Radarr or to the media server, and by
\* which process: "main", or "worker" for a process of the pool
Event(by, op, target) == [by |-> by, op |-> op, target |-> target]

\* a plausible slip: the file is written back each time it is loaded
CacheReadRewrites(by) ==
    <<Event(by, "cache_read", "-"), Event(by, "cache_write", "-")>>

\* RadarrMovieCache.load_movies_from_cache: the file is opened for reading
CacheRead(by) == <<Event(by, "cache_read", "-")>>

\* a plausible slip: the media server's movies are listed again on every call
GetJellyfinMoviesRelists(cached, srv, lm, ls) ==
    [reqs |-> ListAll(srv, "Movie", lm).reqs \o ListAll(srv, "Series", ls).reqs,
     movies |-> ListAll(srv, "Movie", lm).items]

\* JellyfinDateAddedUpdater.get_jellyfin_movies: the movies prepare_cache
\* kept; both types are listed only if nothing was kept
GetJellyfinMovies(cached, srv, lm, ls) ==
    IF cached = None
    THEN [reqs |-> ListAll(srv, "Movie", lm).reqs \o ListAll(srv, "Series", ls).reqs,
          movies |-> ListAll(srv, "Movie", lm).items]
    ELSE [reqs |-> <<>>, movies |-> cached.s]

\* what run keeps of one folder: where process_movie_directory stands, what
\* update_jellyfin_dateadded read and built, the writes it issued, its result
NewTask ==
    [stage |-> "queued", item |-> None, dateadded |-> None, fetched |-> None, body |-> None,
     writes |-> <<>>, result |-> Pending]

\* the folders of the media directory
FolderA == <<"a">>
FolderA2 == <<"a", "2">>

InitDate ==
    /\ mode = "date" /\ pc = "start"
    /\ \E created \in {Pending, Date(10), Date(30)} :
          server = [i \in ItemIds |->
                      IF i = "m1"
                      THEN LET base == [f \in {"Name", "ProviderIds"} |->
                                          IF f = "Name" THEN ItemName[i]
                                          ELSE [p \in {"Tmdb"} |-> S(s7)]]
                           IN IF created = Pending THEN base
                              ELSE Put(base, "DateCreated", created)
                      ELSE Item(i, S(sM))]
    /\ \E dry_run \in BOOLEAN, use_multiprocessing \in BOOLEAN,
          subdirs \in {<<FolderA>>, <<FolderA, FolderA2>>},
          video \in {{FolderA, FolderA2}, {FolderA}},
          radarr \in {<<RadarrMovie(1, FolderA, s7, <<"A">>)>>,
                      <<RadarrMovie(1, FolderA, s7, <<"A">>),
                        RadarrMovie(2, FolderA2, <<>>, <<>>)>>},
          file \in {NoFile, CacheFile(<<RadarrMovie(1, FolderA, s7, <<"A">>)>>)} :
          da = [dry_run |-> dry_run, use_multiprocessing |-> use_multiprocessing,
                subdirs |-> subdirs, video |-> video, radarr |-> radarr,
                cacheFile |-> file, movies_lookup |-> None, title_lookup |-> None,
                jellyfin_movies |-> None, pool |-> FALSE,
                task |-> [d \in {subdirs[k] : k \in 1..Len(subdirs)} |-> NewTask],
                events |-> <<>>, stats |-> None]
    /\ ClientFresh /\ BatchIdle /\ AusIdle /\ NormalizeIdle /\ CSIdle
    /\ selection = None /\ prevRun = None /\ an = None

DateFrame == <<mode, users, parental, lastCall, nCalls, nEdits, updates, ratingType, idx,
               counts, results, custom, proc, mediaItems, unmappableFile, nValue, nCore,
               nRating, cs, selection, prevRun, an>>

\* main up to the fan-out: JellyfinDateAddedUpdater.__init__ (the connection
\* test), then run: prepare_cache (Radarr's movies are saved to the cache file
\* if there are any, clear_cache loads both lookups from the file, the media
\* server's movies are listed) and the choice between the pool and the loop.
\* A failed connection test or user lookup raises, and main returns 1.
DatePrepare ==
    /\ mode = "date" /\ pc = "start"
    /\ \E so \in {"ok", "error"}, go \in {"ok", "error"}, uo \in UserOutcomes,
          lm \in ListOutcomes, ls \in ListOutcomes :
          LET test == <<Req("GET", "SystemInfo", "-", so = "ok")>>
              movies == IF go = "ok" THEN da.radarr ELSE <<>>
              file == IF movies # <<>> THEN CacheFile(movies) ELSE da.cacheFile
              saved == <<Event("main", "radarr", "movie")>>
                       \o (IF movies # <<>> THEN <<Event("main", "cache_write", "-")>> ELSE <<>>)
                       \o CacheRead("main") \o CacheRead("main")
              pu == PrimaryUser(primaryUser, usersCache, users, uo)
              a == ListAll(server, "Movie", lm)
              b == ListAll(server, "Series", ls)
              cached == [da EXCEPT !.cacheFile = file,
                                   !.movies_lookup = MoviesLookup(LoadMoviesFromCache(file)),
                                   !.title_lookup = TitleLookup(LoadMoviesFromCache(file)),
                                   !.events = saved]
          IN IF so = "error"
             THEN /\ http' = test
                  /\ pc' = "exited" /\ exitCode' = I(1)
                  /\ UNCHANGED <<da, primaryUser, usersCache>>
             ELSE /\ primaryUser' = pu.primary
                  /\ usersCache' = pu.cache
                  /\ IF pu.raised
                     THEN /\ http' = test \o pu.reqs
                          /\ da' = cached
                          /\ pc' = "exited" /\ exitCode' = I(1)
                     ELSE /\ http' = test \o pu.reqs \o a.reqs \o b.reqs
                          /\ da' = [cached EXCEPT
                                       !.jellyfin_movies = S(a.items),
                                       !.pool = da.use_multiprocessing /\ Len(da.subdirs) > 1]
                          /\ pc' = "run" /\ exitCode' = None
    /\ UNCHANGED server
    /\ UNCHANGED DateFrame

\* the process that runs process_movie_directory for a folder
Runner == IF da.pool THEN "worker" ELSE "main"

\* the folder's turn has come: always in the pool; in the loop, when every
\* earlier folder has produced its result
Turn(d) ==
    \/ da.pool
    \/ \A k \in 1..Len(da.subdirs) :
           (\E j \in (k + 1)..Len(da.subdirs) : da.subdirs[j] = d) =>
               da.task[da.subdirs[k]].stage = "done"

Finished(task, result) == [task EXCEPT !.stage = "done", !.result = result]

\* process_movie_directory up to find_jellyfin_movie
DateLookup(d) ==
    /\ mode = "date" /\ pc = "run" /\ d \in DOMAIN da.task /\ da.task[d].stage = "queued" /\ Turn(d)
    /\ \E ho \in {"radarr", "file", "none"} :
          LET by_folder == IF d \in DOMAIN da.movies_lookup THEN da.movies_lookup[d] ELSE None
              by_title == GetMovieByTitle(da.title_lookup, da.cacheFile, d)
              radarr_movie == IF by_folder # None THEN by_folder ELSE by_title.movie
              reads == IF by_folder = None /\ by_title.read
                       THEN CacheRead(Runner)
                            \o (IF by_title.movie # None THEN CacheRead(Runner) ELSE <<>>)
                       ELSE <<>>
              dateadded == GetDateaddedForMovie(ho)
              listed == GetJellyfinMovies(da.jellyfin_movies, server, "ok", "ok")
              jm == FindJellyfinMovie(listed.movies, d, radarr_movie)
              found == ~(d \notin da.video \/ radarr_movie = None \/ dateadded = None)
              history == <<Event(Runner, "radarr", "history")>>
          IN /\ IF d \notin da.video
                THEN da' = [da EXCEPT !.task[d] = Finished(@, None)]
                ELSE IF radarr_movie = None
                THEN da' = [da EXCEPT
                              !.task[d] = Finished(@, DirResult(d, "not_found_in_radarr",
                                                                FALSE, FALSE, None)),
                              !.events = @ \o reads]
                ELSE IF dateadded = None
                THEN da' = [da EXCEPT
                              !.task[d] = Finished(@, DirResult(d, "no_dateadded_found",
                                                                FALSE, FALSE, None)),
                              !.events = @ \o reads \o history]
                ELSE IF jm = None
                THEN da' = [da EXCEPT
                              !.task[d] = Finished(@, DirResult(d, "not_found_in_jellyfin",
                                                                FALSE, FALSE, None)),
                              !.events = @ \o reads \o history]
                ELSE da' = [da EXCEPT
                              !.task[d] = [@ EXCEPT !.stage = "read", !.item = jm.id,
                                                    !.dateadded = dateadded],
                              !.events = @ \o reads \o history]
             /\ http' = IF found THEN http \o listed.reqs ELSE http
    /\ UNCHANGED <<pc, server, usersCache, primaryUser, exitCode>>
    /\ UNCHANGED DateFrame

\* update_jellyfin_dateadded: the read and the comparison.  The user is the
\* one prepare_cache looked up.  An exception (a body that is no JSON) is
\* caught and gives (False, False).
DateRead(d) ==
    /\ mode = "date" /\ pc = "run" /\ d \in DOMAIN da.task /\ da.task[d].stage = "read"
    /\ \E ro \in ReadOutcomes :
          LET task == da.task[d]
              read == GetMediaItemDetails(server, task.item, ro)
              current_date == Get(read.value, "DateCreated")
              new_date == Date(FormatDate(task.dateadded.n))
              ev == <<Event(Runner, "GET", task.item)>>
          IN /\ http' = http \o read.reqs
             /\ IF read.raised \/ NoData(read.value)
                THEN da' = [da EXCEPT
                              !.task[d] = Finished(@, UpdateResult(d, task.item, FALSE, FALSE)),
                              !.events = @ \o ev]
                ELSE IF current_date # None /\ SameDate(current_date.n, new_date.n)
                THEN da' = [da EXCEPT
                              !.task[d] = Finished(@, UpdateResult(d, task.item, TRUE, FALSE)),
                              !.events = @ \o ev]
                ELSE da' = [da EXCEPT
                              !.task[d] = [@ EXCEPT !.stage = "write",
                                              !.fetched = read.value,
                                              !.body = Put(read.value, "DateCreated", new_date)],
                              !.events = @ \o ev]
    /\ UNCHANGED <<pc, server, usersCache, primaryUser, exitCode>>
    /\ UNCHANGED DateFrame

\* update_jellyfin_dateadded: the POST of the record read with DateCreated
\* set; a rejected write raises and gives (False, False)
DateWrite(d) ==
    /\ mode = "date" /\ pc = "run" /\ d \in DOMAIN da.task /\ da.task[d].stage = "write"
    /\ \E wo \in WriteOutcomes :
          LET task == da.task[d]
              ev == <<Event(Runner, "POST", task.item)>>
              post == Req("POST", "Item", task.item, wo = "ok")
              issued == [task EXCEPT !.writes = Append(@, post)]
          IN /\ http' = Append(http, post)
             /\ server' = IF wo = "ok" THEN [server EXCEPT ![task.item] = task.body] ELSE server
             /\ da' = [da EXCEPT
                         !.task[d] = IF wo = "ok" THEN [issued EXCEPT !.stage = "verify"]
                                     ELSE Finished(issued,
                                                   UpdateResult(d, task.item, FALSE, FALSE)),
                         !.events = @ \o ev]
    /\ UNCHANGED <<pc, usersCache, primaryUser, exitCode>>
    /\ UNCHANGED DateFrame

\* update_jellyfin_dateadded: the read after the write.  No record read:
\* (True, True); the date read within a second of the one written: (True,
\* True); another date, no date or an exception: (False, False).
DateVerify(d) ==
    /\ mode = "date" /\ pc = "run" /\ d \in DOMAIN da.task /\ da.task[d].stage = "verify"
    /\ \E ro \in ReadOutcomes :
          LET task == da.task[d]
              read == GetMediaItemDetails(server, task.item, ro)
              actual_date == Get(read.value, "DateCreated")
              ok == IF read.raised THEN FALSE
                    ELSE IF NoData(read.value) THEN TRUE
                    ELSE actual_date # None
                         /\ SameDate(actual_date.n, task.body["DateCreated"].n)
          IN /\ http' = http \o read.reqs
             /\ da' = [da EXCEPT
                         !.task[d] = Finished(@, UpdateResult(d, task.item, ok, ok)),
                         !.events = @ \o <<Event(Runner, "GET", task.item)>>]
    /\ UNCHANGED <<pc, server, usersCache, primaryUser, exitCode>>
    /\ UNCHANGED DateFrame

\* run: the statistics, once every folder has its result; main prints them
\* and returns 0
DateFinish ==
    /\ mode = "date" /\ pc = "run"
    /\ \A d \in DOMAIN da.task : da.task[d].stage = "done"
    /\ LET valid == {d \in DOMAIN da.task : da.task[d].result # None}
       IN da' = [da EXCEPT !.stats =
                    [total |-> Len(da.subdirs),
                     processed |-> Cardinality(valid),
                     updated |-> Cardinality({d \in valid : da.task[d].result.was_updated}),
                     skipped |-> Cardinality({d \in valid : da.task[d].result.success
                                                  /\ ~da.task[d].result.was_updated}),
                     failed |-> Cardinality({d \in valid : ~da.task[d].result.success})]]
    /\ pc' = "exited" /\ exitCode' = I(0)
    /\ UNCHANGED <<server, http, usersCache, primaryUser>>
    /\ UNCHANGED DateFrame

NextDate ==
    \/ DatePrepare
    \/ \E d \in {FolderA, FolderA2} : DateLookup(d)
    \/ \E d \in {FolderA, FolderA2} : DateRead(d)
    \/ \E d \in {FolderA, FolderA2} : DateWrite(d)
    \/ \E d \in {FolderA, FolderA2} : DateVerify(d)
    \/ DateFinish

SpecDate == InitDate /\ [][NextDate]_vars

\* ------------------------------------------------------------------------
\* reset_dateadded_jellyfin.py: the RadarrMovieCache object on its own
\* ------------------------------------------------------------------------
\* the two cached properties
CachedProperties == {"movies_lookup", "title_lookup"}

Loaded(d) == [t |-> "dict", d |-> d]

\* the movies a cache file may hold
CacheFiles ==
    {CacheFile(<<RadarrMovie(1, FolderA, s7, <<"A">>)>>),
     CacheFile(<<RadarrMovie(2, FolderA2, <<>>, <<"B">>)>>),
     CacheFile(<<RadarrMovie(1, FolderA, s7, <<"A">>), RadarrMovie(2, FolderA2, <<>>, <<"B">>)>>)}

\* what a lookup built from the file holds
LookupOf(attr, file) ==
    IF attr = "movies_lookup" THEN Loaded(MoviesLookup(LoadMoviesFromCache(file)))
    ELSE Loaded(TitleLookup(LoadMoviesFromCache(file)))

\* the body of the property: the file is read only while the private
\* attribute is None; the private attribute is returned
PropertyBody(obj, file, attr) ==
    LET private == IF attr = "movies_lookup" THEN obj._movies_lookup ELSE obj._title_lookup
        value == IF private = None THEN LookupOf(attr, file) ELSE private
    IN [value |-> value,
        obj |-> IF attr = "movies_lookup" THEN [obj EXCEPT !._movies_lookup = value]
                ELSE [obj EXCEPT !._title_lookup = value]]

\* functools.cached_property: the value kept in the instance's __dict__, else
\* the body is run and its value kept
GetAttr(obj, file, attr) ==
    IF attr \in DOMAIN obj.dict
    THEN [value |-> obj.dict[attr], obj |-> obj]
    ELSE LET ran == PropertyBody(obj, file, attr)
         IN [value |-> ran.value, obj |-> [ran.obj EXCEPT !.dict = Put(@, attr, ran.value)]]

\* one pass of the loop of clear_cache: hasattr evaluates the property (and
\* so is always true), delattr removes the kept value from __dict__
ClearOne(obj, file, attr) ==
    LET got == GetAttr(obj, file, attr).obj
    IN [got EXCEPT !.dict = [x \in DOMAIN got.dict \ {attr} |-> got.dict[x]]]

\* RadarrMovieCache.clear_cache
ClearCache(obj, file) == ClearOne(ClearOne(obj, file, "movies_lookup"), file, "title_lookup")

\* RadarrMovieCache.__init__, with or without a cache file from an earlier run
InitCache ==
    /\ mode = "cache" /\ pc = "ready"
    /\ \E file \in {NoFile} \cup CacheFiles :
          da = [cacheFile |-> file,
                obj |-> [_movies_lookup |-> None, _title_lookup |-> None, dict |-> EmptyDict],
                cleared |-> {}, last |-> None]
    /\ ClientFresh /\ BatchIdle /\ AusIdle /\ NormalizeIdle /\ CSIdle
    /\ server = [i \in ItemIds |-> Item(i, None)]
    /\ selection = None /\ prevRun = None /\ an = None

\* an access to cache.movies_lookup or cache.title_lookup; kept with it: the
\* file as it is at the access, and whether clear_cache was the call made
\* directly before it (no rewrite of the file and no access to the property
\* in between)
CacheAccess ==
    /\ mode = "cache"
    /\ \E attr \in CachedProperties :
          LET got == GetAttr(da.obj, da.cacheFile, attr)
          IN da' = [da EXCEPT !.obj = got.obj,
                              !.cleared = @ \ {attr},
                              !.last = [attr |-> attr, value |-> got.value,
                                        file |-> da.cacheFile,
                                        after_clear |-> attr \in da.cleared]]
    /\ UNCHANGED <<pc, server, http, usersCache, primaryUser, exitCode>>
    /\ UNCHANGED DateFrame

\* the cache file is written anew (save_movies_to_cache, or another run)
CacheRewrite ==
    /\ mode = "cache"
    /\ \E file \in CacheFiles \ {da.cacheFile} :
          da' = [da EXCEPT !.cacheFile = file, !.cleared = {}]
    /\ UNCHANGED <<pc, server, http, usersCache, primaryUser, exitCode>>
    /\ UNCHANGED DateFrame

\* a call of clear_cache
CacheClear ==
    /\ mode = "cache"
    /\ da' = [da EXCEPT !.obj = ClearCache(da.obj, da.cacheFile),
                        !.cleared = CachedProperties]
    /\ UNCHANGED <<pc, server, http, usersCache, primaryUser, exitCode>>
    /\ UNCHANGED DateFrame

NextCache ==
    \/ CacheAccess
    \/ CacheRewrite
    \/ CacheClear

SpecCache == InitCache /\ [][NextCache]_vars

\* ------------------------------------------------------------------------
\* anime_id_clean.py: the anime provider ID cleaner
\* ------------------------------------------------------------------------
ANIME_KEYWORDS ==
    {<<"a", "n", "i", "m", "e">>,
     <<"ア", "ニ", "メ">>,
     <<"a", "n", "i", "m", "a", "t", "i", "o", "n">>,
     <<"j", "a", "p", "a", "n", "e", "s", "e", " ", "a", "n", "i", "m", "a", "t", "i", "o", "n">>,
     <<"m", "a", "n", "g", "a">>,
     <<"o", "t", "a", "k", "u">>,
     <<"c", "r", "u", "n", "c", "h", "y", "r", "o", "l", "l">>,
     <<"f", "u", "n", "i", "m", "a", "t", "i", "o", "n">>}

ANIME_PROVIDERS == {"AniDB", "AniList"}

\* AnimeLibraryDetector.is_anime_library
IsAnimeLibrary(library_name) ==
    \E keyword \in ANIME_KEYWORDS : Contains(keyword, Lower(library_name))

\* AnimeProviderFilter.get_anime_provider_ids (the providers; the IDs are the
\* item's own)
GetAnimeProviderIds(media_item) == DOMAIN media_item.provider_ids \cap ANIME_PROVIDERS

\* AnimeProviderFilter.should_include
AnimeShouldInclude(media_item) == GetAnimeProviderIds(media_item) # {}

LibraryInfo(id, name) == [id |-> id, name |-> name, is_anime |-> IsAnimeLibrary(name)]

CleanupResult(total, cleaned, skipped, failed, removed) ==
    [total_items_processed |-> total, items_cleaned |-> cleaned, items_skipped |-> skipped,
     items_failed |-> failed, provider_ids_removed |-> removed,
     episodes_processed |-> 0, episodes_cleaned |-> 0, episodes_failed |-> 0]

\* AnimeProviderCleaner.get_libraries, given what the primary_user property
\* answered (pu): GET /Users/{id}/Views; a JellyfinAPIError from either gives []
GetLibraries(pu, views, vo) ==
    [primary |-> pu.primary, cache |-> pu.cache,
     reqs |-> pu.reqs \o (IF pu.raised THEN <<>> ELSE <<Req("GET", "Views", "-", vo = "ok")>>),
     libraries |-> IF pu.raised \/ vo # "ok" THEN <<>>
                   ELSE [k \in 1..Len(views) |-> LibraryInfo(views[k].Id, views[k].Name)]]


\* AnimeProviderCleaner.get_media_items_by_library: with include_episodes the
\* list of types is extended by MediaType.EPISODE, which the core enumeration
\* (MOVIE, SERIES) does not have: AttributeError, before any request
GetMediaItemsByLibraryRaises(include_episodes) ==
    include_episodes /\ "Episode" \notin MediaType

\* AnimeProviderCleaner.get_non_anime_items_with_anime_providers, given the
\* libraries of get_anime_library_ids (first) and of its own get_libraries
\* (second): each library not flagged anime is scanned with include_episodes
\* left at its default, True
GetNonAnimeItems(first, second) ==
    [anime_libraries |-> {first.libraries[k].id : k \in
                            {j \in 1..Len(first.libraries) : first.libraries[j].is_anime}},
     raised |-> /\ \E k \in 1..Len(second.libraries) : ~second.libraries[k].is_anime
                /\ GetMediaItemsByLibraryRaises(TRUE),
     items_to_clean |-> <<>>]

\* a plausible slip: the provider IDs written are those of the listed item
CleanedRecordFromSnapshot(current_data, item) ==
    Put(current_data, "ProviderIds",
        [p \in DOMAIN item.provider_ids \ ANIME_PROVIDERS |-> item.provider_ids[p]])

\* current_data of remove_anime_provider_ids after the deletion loop: the
\* anime providers of the listed item are deleted from the ProviderIds read
CleanedRecord(current_data, item) ==
    LET current_provider_ids == IF "ProviderIds" \in DOMAIN current_data
                                THEN current_data["ProviderIds"] ELSE EmptyDict
    IN Put(current_data, "ProviderIds",
           [p \in DOMAIN current_provider_ids \ GetAnimeProviderIds(item) |->
               current_provider_ids[p]])

\* AnimeProviderCleaner.remove_anime_provider_ids for a MediaItem of an
\* earlier listing: nothing is done without an anime provider in the
\* snapshot; otherwise the record is read, the snapshot's anime providers are
\* deleted from its ProviderIds and the record is posted.  A JellyfinAPIError
\* is caught and gives (False, 0); a body that is no JSON raises past it.
RemoveAnimeProviderIds(srv, item, primary, cache, srvUsers, uo, ro, wo) ==
    LET anime_provider_ids == GetAnimeProviderIds(item)
        pu == PrimaryUser(primary, cache, srvUsers, uo)
        read == GetMediaItemDetails(srv, item.id, ro)
        current_provider_ids == IF "ProviderIds" \in DOMAIN read.value
                                THEN read.value["ProviderIds"] ELSE EmptyDict
        removed == anime_provider_ids \cap DOMAIN current_provider_ids
        body == CleanedRecord(read.value, item)
        none == [success |-> TRUE, ids_removed |-> 0, raised |-> FALSE, reqs |-> <<>>,
                 fetched |-> None, body |-> None, wrote |-> FALSE,
                 primary |-> primary, cache |-> cache]
    IN IF anime_provider_ids = {} THEN none
       ELSE IF pu.raised
       THEN [none EXCEPT !.success = FALSE, !.reqs = pu.reqs, !.cache = pu.cache]
       ELSE IF read.raised
       THEN [none EXCEPT !.success = FALSE, !.raised = TRUE, !.reqs = pu.reqs \o read.reqs,
                         !.primary = pu.primary, !.cache = pu.cache]
       ELSE IF NoData(read.value)
       THEN [none EXCEPT !.success = FALSE, !.reqs = pu.reqs \o read.reqs,
                         !.primary = pu.primary, !.cache = pu.cache]
       ELSE [success |-> (wo = "ok"),
             ids_removed |-> IF wo = "ok" THEN Cardinality(removed) ELSE 0,
             raised |-> FALSE,
             reqs |-> pu.reqs \o read.reqs \o <<Req("POST", "Item", item.id, wo = "ok")>>,
             fetched |-> read.value, body |-> body, wrote |-> (wo = "ok"),
             primary |-> pu.primary, cache |-> pu.cache]

\* the values a ProviderIds dict takes here
AnimeProviderIds ==
    {EmptyDict,
     [p \in {"Imdb"} |-> S(sTT1)],
     [p \in {"AniDB"} |-> S(s7)],
     [p \in {"AniDB", "Imdb"} |-> IF p = "Imdb" THEN S(sTT1) ELSE S(s7)],
     [p \in {"AniDB", "AniList"} |-> S(s7)]}

LibraryNames ==
    {<<"A", "n", "i", "m", "e">>,
     <<"T", "V", " ", "A", "N", "I", "M", "E">>,
     <<"M", "o", "v", "i", "e", "s">>,
     <<"A", "n", "i", "m">>}

\* the library each item is under
ParentLibrary == [i \in ItemIds |-> IF i = "m1" THEN "L1" ELSE "L2"]

AnimeServer(pm, ps) ==
    [i \in ItemIds |->
        [f \in {"Name", "ProviderIds"} |->
            IF f = "Name" THEN ItemName[i] ELSE IF i = "m1" THEN pm ELSE ps]]

NoCleanerCall == [t |-> "nocall"]

\* the script started: one or two libraries, a movie under the first and a
\* series under the second
InitAnime ==
    /\ mode = "anime" /\ pc = "start"
    /\ \E pm \in AnimeProviderIds, ps \in AnimeProviderIds : server = AnimeServer(pm, ps)
    /\ \E n1 \in LibraryNames, n2 \in LibraryNames, two \in BOOLEAN,
          dry_run \in BOOLEAN, clean_series_episodes \in BOOLEAN :
          an = [dry_run |-> dry_run, clean_series_episodes |-> clean_series_episodes,
                views |-> IF two THEN <<[Id |-> "L1", Name |-> n1], [Id |-> "L2", Name |-> n2]>>
                          ELSE <<[Id |-> "L1", Name |-> n1]>>,
                episodes |-> {}, snapshot |-> None,
                anime_libraries |-> None, items_to_clean |-> None, result |-> None,
                raised |-> None, call |-> NoCleanerCall]
    /\ ClientFresh /\ BatchIdle /\ AusIdle /\ NormalizeIdle /\ CSIdle
    /\ selection = None /\ prevRun = None /\ da = None

\* a cleaner whose caller holds the items of an earlier listing (the
\* snapshot); the records on the server may have changed since
InitAnimeCall ==
    /\ mode = "cleaner" /\ pc = "ready"
    /\ \E pm \in AnimeProviderIds, ps \in AnimeProviderIds : server = AnimeServer(pm, ps)
    /\ \E sm \in AnimeProviderIds, ss \in AnimeProviderIds, episodes \in {{}, {"e1"}},
          dry_run \in BOOLEAN :
          an = [dry_run |-> dry_run, clean_series_episodes |-> TRUE,
                views |-> <<[Id |-> "L1", Name |-> <<"M", "o", "v", "i", "e", "s">>]>>,
                episodes |-> episodes,
                snapshot |-> [i \in ItemIds |->
                                 MakeMediaItem(AnimeServer(sm, ss), i, ItemType[i])],
                anime_libraries |-> None, items_to_clean |-> None, result |-> None,
                raised |-> None, call |-> NoCleanerCall]
    /\ ClientFresh /\ BatchIdle /\ AusIdle /\ NormalizeIdle /\ CSIdle
    /\ selection = None /\ prevRun = None /\ da = None

AnimeFrame == <<mode, users, parental, lastCall, nCalls, nEdits, updates, ratingType, idx,
                counts, results, custom, proc, mediaItems, unmappableFile, nValue, nCore,
                nRating, cs, selection, prevRun, da>>

\* main: create_media_library (the connection test), then run_cleanup.  The
\* scan of the first library not flagged anime raises AttributeError, which
\* main catches and answers with 1; with no such library there is nothing to
\* clean and main returns 0.
AnimeMain ==
    /\ mode = "anime" /\ pc = "start"
    /\ \E so \in {"ok", "error"}, uo1 \in UserOutcomes, vo1 \in ListOutcomes,
          uo2 \in UserOutcomes, vo2 \in ListOutcomes :
       \E pu1 \in {PrimaryUser(primaryUser, usersCache, users, uo1)} :
       \E first \in {GetLibraries(pu1, an.views, vo1)} :
       \E pu2 \in {PrimaryUser(first.primary, first.cache, users, uo2)} :
       \E second \in {GetLibraries(pu2, an.views, vo2)} :
       \E got \in {GetNonAnimeItems(first, second)} :
          LET test == <<Req("GET", "SystemInfo", "-", so = "ok")>>
          IN IF so = "error"
             THEN /\ http' = test
                  /\ exitCode' = I(1)
                  /\ UNCHANGED <<an, primaryUser, usersCache>>
             ELSE /\ http' = test \o first.reqs \o second.reqs
                  /\ primaryUser' = second.primary
                  /\ usersCache' = second.cache
                  /\ IF got.raised
                     THEN /\ an' = [an EXCEPT !.anime_libraries = got.anime_libraries,
                                              !.raised = S(<<"AttributeError">>)]
                          /\ exitCode' = I(1)
                     ELSE /\ an' = [an EXCEPT !.anime_libraries = got.anime_libraries,
                                              !.items_to_clean = got.items_to_clean,
                                              !.result = CleanupResult(0, 0, 0, 0, 0)]
                          /\ exitCode' = I(0)
    /\ pc' = "exited"
    /\ UNCHANGED server
    /\ UNCHANGED AnimeFrame

\* remove_anime_provider_ids called with an item of the snapshot
AnimeRemove ==
    /\ mode = "cleaner" /\ pc = "ready"
    /\ \E i \in ItemIds, uo \in UserOutcomes, ro \in ReadOutcomes, wo \in WriteOutcomes :
       \E res \in {RemoveAnimeProviderIds(server, an.snapshot[i], primaryUser, usersCache,
                                           users, uo, ro, wo)} :
             /\ http' = http \o res.reqs
             /\ server' = IF res.wrote THEN [server EXCEPT ![i] = res.body] ELSE server
             /\ primaryUser' = res.primary
             /\ usersCache' = res.cache
             /\ an' = [an EXCEPT !.call = [op |-> "remove_anime_provider_ids", item |-> i,
                                           before |-> server[i], res |-> res]]
    /\ pc' = "called"
    /\ UNCHANGED exitCode
    /\ UNCHANGED AnimeFrame

\* clean_episodes_for_series called with the series of the snapshot:
\* get_episodes_for_series lists the episodes and raises AttributeError at
\* MediaType.EPISODE when it builds the first one; a failed listing or a
\* series without episodes gives (0, 0, 0)
AnimeCleanEpisodes ==
    /\ mode = "cleaner" /\ pc = "ready"
    /\ \E uo \in UserOutcomes, lo \in ListOutcomes :
          LET pu == PrimaryUser(primaryUser, usersCache, users, uo)
              listing == <<Req("GET", "List", "Episode", lo = "ok")>>
              raised == pu.raised \/ (lo = "ok" /\ an.episodes # {} /\ "Episode" \notin MediaType)
          IN /\ http' = http \o pu.reqs \o (IF pu.raised THEN <<>> ELSE listing)
             /\ primaryUser' = pu.primary
             /\ usersCache' = pu.cache
             /\ an' = [an EXCEPT !.call =
                          [op |-> "clean_episodes_for_series", item |-> "s1",
                           before |-> server["s1"],
                           res |-> [raised |-> raised,
                                    counts |-> IF raised THEN None ELSE <<0, 0, 0>>]]]
    /\ pc' = "called"
    /\ UNCHANGED <<server, exitCode>>
    /\ UNCHANGED AnimeFrame

NextAnime ==
    \/ AnimeMain
    \/ AnimeRemove
    \/ AnimeCleanEpisodes

SpecAnime == (InitAnime \/ InitAnimeCall) /\ [][NextAnime]_vars

\* ------------------------------------------------------------------------
\* The four scripts and the core's batch driver together
\* ------------------------------------------------------------------------
InitScripts == InitBulk \/ InitAus \/ InitCS \/ InitDate \/ InitAnime \/ InitAnimeCall

NextScripts ==
    \/ BulkStep
    \/ BulkReturn
    \/ AusStart
    \/ AusGetMedia
    \/ AusProcess
    \/ AusApplyStep
    \/ AusFinish
    \/ ExternalEdit
    \/ CSGetUser
    \/ CSGetMedia
    \/ CSGetRatings
    \/ CSUpdateStep
    \/ CSFinish
    \/ DatePrepare
    \/ \E d \in {FolderA, FolderA2} : DateLookup(d)
    \/ \E d \in {FolderA, FolderA2} : DateRead(d)
    \/ \E d \in {FolderA, FolderA2} : DateWrite(d)
    \/ \E d \in {FolderA, FolderA2} : DateVerify(d)
    \/ DateFinish
    \/ AnimeMain
    \/ AnimeRemove
    \/ AnimeCleanEpisodes

SpecScripts == InitScripts /\ [][NextScripts]_vars

\* ------------------------------------------------------------------------
\* Claims about the normalizers
\* ------------------------------------------------------------------------
AllWhitespace(s) == \A k \in 1..Len(s) : s[k] \in Whitespace

DigitValue(c) == CHOOSE d \in 0..9 : DigitChars[d + 1] = c

RECURSIVE DecimalValue(_)
DecimalValue(s) ==
    IF s = <<>> THEN 0
    ELSE 10 * DecimalValue(SubSeq(s, 1, Len(s) - 1)) + DigitValue(s[Len(s)])

\* the int a decimal numeral denotes
ParseInt(s) == IF Head(s) = "-" THEN -DecimalValue(Tail(s)) ELSE DecimalValue(s)

\* r is the absence marker or a non-empty string with no whitespace at either end
Canonical(r) ==
    \/ r = None
    \/ /\ IsStr(r) /\ r.s # <<>>
       /\ r.s[1] \notin Whitespace /\ r.s[Len(r.s)] \notin Whitespace

\* r.s is s with only whitespace cut from its two ends
IsStrippedFormOf(r, s) ==
    \E a \in 0..Len(s), b \in 0..Len(s) :
        /\ a + b <= Len(s)
        /\ AllWhitespace(SubSeq(s, 1, a))
        /\ AllWhitespace(SubSeq(s, Len(s) - b + 1, Len(s)))
        /\ r.s = SubSeq(s, a + 1, Len(s) - b)

\* C1: for every input (None, a string, an int, a bool) both normalizers return a
\* result, the same one; it is the absence marker or a non-empty string without
\* whitespace at its ends; None, "" and whitespace-only strings give the absence
\* marker; any other string gives itself with the surrounding whitespace cut; an
\* int gives its decimal numeral (5 gives "5", as "5" does)
C1_NormalizerContract ==
    (mode = "normalize" /\ pc = "normalized") =>
        /\ nCore # Pending /\ nRating # Pending
        /\ nCore = nRating
        /\ Canonical(nCore)
        /\ (IsNone(nValue) \/ (IsStr(nValue) /\ AllWhitespace(nValue.s))) => nCore = None
        /\ (IsStr(nValue) /\ ~AllWhitespace(nValue.s)) =>
               (IsStr(nCore) /\ IsStrippedFormOf(nCore, nValue.s))
        /\ nValue.t = "int" => (IsStr(nCore) /\ ParseInt(nCore.s) = nValue.n
                                /\ \A k \in 1..Len(nCore.s) :
                                      nCore.s[k] \in {DigitChars[d] : d \in 1..10} \cup {"-"})
        /\ nValue.t = "bool" => nCore = S(IF nValue.b THEN <<"T", "r", "u", "e">>
                                          ELSE <<"F", "a", "l", "s", "e">>)
        /\ nValue = I(5) => nCore = S(s5)
        /\ nValue = S(s5) => nCore = S(s5)

\* the int 5 has been normalized by both functions to "5"
C1_Witness ==
    /\ mode = "normalize" /\ pc = "normalized"
    /\ nValue = I(5) /\ nCore = S(s5) /\ nRating = S(s5)

\* ------------------------------------------------------------------------
\* Claims about the reconciler
\* ------------------------------------------------------------------------
SingleField(c) == Cardinality(DOMAIN c.updates) = 1
TheField(c) == CHOOSE f \in DOMAIN c.updates : TRUE

\* the read of invocation c returned the item's record
ReadGaveRecord(c) == c.ro = "ok"

\* current and desired value of invocation c are equal after normalization
SameAfterNormalization(c) ==
    NormalizeValue(Get(c.before, TheField(c))) = NormalizeValue(c.updates[TheField(c)])

\* C2: an invocation with a single field whose current remote value equals the
\* desired one after normalization issues no POST, leaves the server as it was
\* and returns (success=True, was_updated=False)
C2_EqualFieldNoWrite ==
    (lastCall.valid /\ SingleField(lastCall) /\ ReadGaveRecord(lastCall)
        /\ SameAfterNormalization(lastCall)) =>
        /\ Posts(lastCall.res.reqs) = <<>>
        /\ lastCall.res.server[lastCall.item_id] = lastCall.before
        /\ ~lastCall.res.raised
        /\ lastCall.res.success /\ ~lastCall.res.was_updated

\* the remote value was " M ", the desired one "M": equal only after
\* normalization, and the invocation returned Unchanged without a write
C2_Witness ==
    /\ lastCall.valid /\ SingleField(lastCall) /\ ReadGaveRecord(lastCall)
    /\ TheField(lastCall) = "OfficialRating"
    /\ Get(lastCall.before, "OfficialRating") = S(sPadM)
    /\ lastCall.updates["OfficialRating"] = S(sM)
    /\ Outcome(lastCall.res) = "Unchanged" /\ Posts(lastCall.res.reqs) = <<>>

\* body is the record `before` with field f set to v and nothing else changed
SameExceptField(body, before, f, v) ==
    /\ DOMAIN body = DOMAIN before \cup {f}
    /\ body[f] = v
    /\ \A g \in DOMAIN before : g # f => body[g] = before[g]

\* C3: an invocation with a single field whose current remote value differs from
\* the desired one after normalization issues exactly one POST, and the body
\* written is the record the read fetched with only the target field changed,
\* to the desired value
C3_DifferentFieldOneWrite ==
    (lastCall.valid /\ SingleField(lastCall) /\ ReadGaveRecord(lastCall)
        /\ ~SameAfterNormalization(lastCall)) =>
        /\ Len(Posts(lastCall.res.reqs)) = 1
        /\ Posts(lastCall.res.reqs)[1].id = lastCall.item_id
        /\ lastCall.res.fetched = lastCall.before
        /\ SameExceptField(lastCall.res.body, lastCall.res.fetched, TheField(lastCall),
                           lastCall.updates[TheField(lastCall)])
        /\ lastCall.wo = "ok" => lastCall.res.server[lastCall.item_id] = lastCall.res.body

\* a record without a CustomRating key was given one: one POST, whose body
\* keeps Name and OfficialRating as fetched
C3_Witness ==
    /\ lastCall.valid /\ SingleField(lastCall) /\ ReadGaveRecord(lastCall)
    /\ TheField(lastCall) = "CustomRating"
    /\ "CustomRating" \notin DOMAIN lastCall.before
    /\ lastCall.updates["CustomRating"] = S(s5)
    /\ Len(Posts(lastCall.res.reqs)) = 1
    /\ Outcome(lastCall.res) = "Updated"
    /\ lastCall.res.body["OfficialRating"] = lastCall.before["OfficialRating"]

\* C4: every invocation of update_media_metadata issues at most one GET of the
\* item and at most one POST, whatever its outcome, all for the item it was
\* called for; a failed read is followed by nothing, a failed write by nothing
C4_AtMostOneReadOneWrite ==
    lastCall.valid =>
        /\ Len(ItemGets(lastCall.res.reqs)) <= 1
        /\ Len(Posts(lastCall.res.reqs)) <= 1
        /\ Len(lastCall.res.reqs) <= 2
        /\ \A k \in 1..Len(lastCall.res.reqs) : lastCall.res.reqs[k].id = lastCall.item_id
        /\ \A k \in 1..Len(lastCall.res.reqs) :
              ~lastCall.res.reqs[k].ok => k = Len(lastCall.res.reqs)

\* an invocation whose write the server rejected: one GET, one POST, Failed
C4_Witness ==
    /\ lastCall.valid /\ lastCall.wo = "error"
    /\ Len(ItemGets(lastCall.res.reqs)) = 1 /\ Len(Posts(lastCall.res.reqs)) = 1
    /\ Outcome(lastCall.res) = "Failed"

\* C5: when the read gives no representation (transport error, non-2xx, missing
\* item, or an empty body), the invocation returns (False, False), issues no
\* POST, has issued exactly one GET and leaves the server as it was
C5_ReadFailureFails ==
    (lastCall.valid /\ lastCall.ro \in {"error", "empty"}) =>
        /\ ~lastCall.res.success /\ ~lastCall.res.was_updated /\ ~lastCall.res.raised
        /\ Posts(lastCall.res.reqs) = <<>>
        /\ Len(ItemGets(lastCall.res.reqs)) = 1 /\ Len(lastCall.res.reqs) = 1
        /\ lastCall.res.server[lastCall.item_id] = lastCall.before

\* an invocation whose read failed although a change was due
C5_Witness ==
    /\ lastCall.valid /\ lastCall.ro = "error" /\ SingleField(lastCall)
    /\ ~SameAfterNormalization(lastCall)
    /\ Outcome(lastCall.res) = "Failed" /\ lastCall.res.reqs = <<Req("GET", "Item", lastCall.item_id, FALSE)>>

\* ------------------------------------------------------------------------
\* Claims about the batch drivers
\* ------------------------------------------------------------------------
InBatch == mode \in {"bulk", "aus"}

\* the item of element k of the driver's input
ItemOf(k) == IF mode = "bulk" THEN updates[k][1] ELSE updates[k].item_id

\* a read or a write of the pass failed: a request was refused or got no
\* answer, or the read's body was empty or no JSON
ExchangeFailed(e) ==
    \/ \E k \in 1..Len(e.reqs) : ~e.reqs[k].ok
    \/ e.ro \in {"empty", "malformed"}

FailedPasses == {k \in 1..Len(results) : ExchangeFailed(results[k])}

\* C6: in both batch drivers a read or write failure on an element never leaves
\* the driver: after every pass the Failed counter equals the number of elements
\* whose read or write failed, the Updated and Unchanged counters together
\* count exactly the other elements, and the driver stands at the next element
C6_FailureOnlyCountsFailed ==
    InBatch =>
        /\ counts.failed = Cardinality(FailedPasses)
        /\ counts.updated + counts.skipped = Len(results) - Cardinality(FailedPasses)
        /\ counts.updated = Cardinality({k \in 1..Len(results) :
                                            ~ExchangeFailed(results[k])
                                            /\ Posts(results[k].reqs) # <<>>})
        /\ idx = Len(results) + 1
        /\ \A k \in FailedPasses :
              mode = "aus" => (~updates[k].success /\ ~updates[k].was_updated)

\* a run of the rating mapper whose first element's write was rejected and
\* whose second element was updated: Failed = 1, Updated = 1, Unchanged = 0
C6_Witness ==
    /\ mode = "aus" /\ pc = "exited" /\ Len(results) = 2
    /\ results[1].wo = "error" /\ results[2].outcome = "Updated"
    /\ counts = [updated |-> 1, skipped |-> 0, failed |-> 1]

\* C7: the batch drivers take the elements of their input one by one in input
\* order, each exactly once; after an element that failed the pass for the next
\* element is possible; and the driver ends only after the last element
C7_EveryItemInOrder ==
    InBatch =>
        /\ Len(results) = idx - 1 /\ idx <= Len(updates) + 1
        /\ \A k \in 1..Len(results) : results[k].at = k /\ results[k].item_id = ItemOf(k)
        /\ (pc \in {"loop", "apply"} /\ 1 < idx /\ idx <= Len(updates)
               /\ results[idx - 1].outcome \in {"Failed", "Raised"})
              => ENABLED (BulkStep \/ AusApplyStep)
        /\ pc \in {"returned", "exited"} => Len(results) = Len(updates)
        /\ \A k \in 1..Len(results) :
              (mode = "aus" /\ updates[k].new_rating # updates[k].old_rating) => results[k].called

\* bulk_update_ratings returned after two elements, the first of which failed
\* and the second of which was updated
C7_Witness ==
    /\ mode = "bulk" /\ pc = "returned" /\ Len(updates) = 2 /\ Len(results) = 2
    /\ results[1].outcome \in {"Failed", "Raised"} /\ results[2].outcome = "Updated"

\* ------------------------------------------------------------------------
\* Claims about the rating mapper
\* ------------------------------------------------------------------------
\* the built-in mapping of the rating is the one in force (no custom entry replaces it)
BuiltInInForce(rating) == rating \notin DOMAIN custom

\* the pass found the item's remote rating still to be `rating`
StillRated(e, rating) ==
    e.called /\ e.ro = "ok" /\ NormalizeValue(Get(e.before, "OfficialRating")) = S(rating)

\* element k of a run: listed with rating `from`, proposed `to`; if the rating
\* read back is still `from`, one POST, and Updated once the server accepts it
MapsAndUpdates(k, from, to) ==
    (updates[k].old_rating = from /\ BuiltInInForce(from)) =>
        /\ updates[k].new_rating = to
        /\ (k <= Len(results) /\ StillRated(results[k], from)) =>
              /\ Len(Posts(results[k].reqs)) = 1
              /\ results[k].wo = "ok" =>
                    (results[k].outcome = "Updated" /\ updates[k].success
                     /\ updates[k].was_updated)
              /\ results[k].wo = "error" => results[k].outcome = "Failed"

C10_AustralianUntouched ==
    mode = "aus" =>
        /\ \A a \in AUSTRALIAN_RATINGS, po \in ParentalOutcomes :
              LET r == MapToAustralianRating(proc, S(a), ItemName["m1"], parental, po, custom)
              IN r.value = S(a) /\ r.st = proc
        /\ \A k \in 1..Len(updates) :
              updates[k].old_rating \in AUSTRALIAN_RATINGS =>
                  /\ updates[k].new_rating = updates[k].old_rating
                  /\ k <= Len(results) =>
                        /\ results[k].outcome = "Unchanged"
                        /\ results[k].reqs = <<>>
                        /\ updates[k].success /\ ~updates[k].was_updated
        /\ counts.skipped = Cardinality({k \in 1..Len(results) : results[k].outcome = "Unchanged"})

\* a finished run with a custom mapping M -> G in which the item rated "M"
\* was left alone and counted as Unchanged
C10_Witness ==
    /\ mode = "aus" /\ pc = "exited" /\ sM \in DOMAIN custom
    /\ \E k \in 1..Len(results) :
          /\ updates[k].old_rating = sM /\ updates[k].new_rating = sM
          /\ results[k].outcome = "Unchanged" /\ results[k].reqs = <<>>
    /\ counts.skipped >= 1

\* ------------------------------------------------------------------------
\* Claim about the exit code
\* ------------------------------------------------------------------------
\* an element of the run whose update did not succeed
ItemFailed == \E k \in 1..Len(results) : results[k].outcome = "Failed"

\* C8: for every script, a completed run exits with code 0 if and only if no
\* item failed during the run, and with code 1 if at least one item failed.
\* Stated for the run of commonsense_ratings.py's main.
C8_ExitCodeReflectsFailures ==
    (mode = "cs" /\ pc = "exited" /\ cs.completed) =>
        /\ (exitCode = I(0)) <=> ~ItemFailed
        /\ ItemFailed => exitCode = I(1)

\* ------------------------------------------------------------------------
\* Claims about unmappable ratings and repeated runs
\* ------------------------------------------------------------------------
\* the rating is neither Australian nor a key of the table the run built from
\* the derived, direct and custom mappings
NoTableHas(rating) ==
    /\ rating # <<>> /\ rating \notin AUSTRALIAN_RATINGS
    /\ proc.rm # None /\ rating \notin DOMAIN proc.rm.d

InExamples(name, rating) ==
    \E n \in 1..Len(unmappableFile) :
        /\ unmappableFile[n].rating = rating
        /\ \E j \in 1..Len(unmappableFile[n].examples) : unmappableFile[n].examples[j] = name

PassesThrough(k) ==
    LET u == updates[k]
    IN /\ u.new_rating = u.old_rating
       /\ k <= Len(results) =>
             /\ results[k].outcome = "Unchanged"
             /\ results[k].reqs = <<>>
             /\ ~results[k].called
       /\ OHas(proc.unm, u.old_rating)
       /\ \E j \in 1..Len(OGet(proc.unm, u.old_rating)) :
             OGet(proc.unm, u.old_rating)[j] = u.name

\* C11 as stated: a rating that is neither Australian nor a key of any mapping
\* table is returned as it is, its element is Unchanged with no request, and
\* the rating with the item's name is in the unmappable list of the mappings
\* file when the run has ended.
C11_UnmappableNamePersisted ==
    mode = "aus" =>
        \A k \in 1..Len(updates) :
            NoTableHas(updates[k].old_rating) =>
                /\ PassesThrough(k)
                /\ pc = "exited" => InExamples(updates[k].name, updates[k].old_rating)

\* C11: a rating that is neither Australian nor a key of any mapping table is
\* returned as it is, its element is Unchanged with no request, and the rating
\* with the item's name is in the processor's unmappable list; when the run has
\* ended the mappings file has an entry for the rating, and the item's name is
\* among its examples unless the entry already holds five examples.
C11_UnmappablePassesThrough ==
    mode = "aus" =>
        \A k \in 1..Len(updates) :
            NoTableHas(updates[k].old_rating) =>
                /\ PassesThrough(k)
                /\ pc = "exited" =>
                      \E n \in 1..Len(unmappableFile) :
                          /\ unmappableFile[n].rating = updates[k].old_rating
                          /\ unmappableFile[n].count >= 1
                          /\ \/ InExamples(updates[k].name, updates[k].old_rating)
                             \/ Len(unmappableFile[n].examples) = 5

C11_Witness ==
    /\ mode = "aus" /\ pc = "exited" /\ prevRun = None
    /\ \E k \in 1..Len(updates) :
          /\ NoTableHas(updates[k].old_rating)
          /\ results[k].outcome = "Unchanged"
          /\ InExamples(updates[k].name, updates[k].old_rating)

AustralianTargets == \A k \in DOMAIN custom : custom[k] \in AUSTRALIAN_RATINGS

\* the second run works with the tables the first run worked with
SameTables == proc.rm = None \/ proc.rm = prevRun.rm

\* the first run listed both media types and none of its elements failed, so
\* every write it issued was accepted and stored
FirstRunClean == prevRun.listed /\ prevRun.counts.failed = 0 /\ ~prevRun.rejected

\* an invocation repeated after an Updated outcome issues no write, and
\* returns Unchanged when its read answers
RepeatedCallUnchanged ==
    (mode = "call" /\ pc = "repeated" /\ Outcome(prevRun.res) = "Updated") =>
        /\ Posts(lastCall.res.reqs) = <<>>
        /\ lastCall.res.server = prevRun.res.server
        /\ lastCall.ro = "ok" => Outcome(lastCall.res) = "Unchanged"

CoreFiltersOrderIndependent ==
    (mode = "select" /\ selection.core # Pending) =>
        /\ selection.core.again = selection.core.first
        /\ selection.core.other = selection.core.first

\* C12: selection run twice over a listing gives the same candidate set, and
\* run over any reordering of the listing gives the same candidate set, for the
\* core filters and for the Common Sense script's _get_media_by_type.
C12_SelectionOrderIndependent ==
    /\ CoreFiltersOrderIndependent
    /\ (mode = "select" /\ selection.commonsense # Pending) =>
           /\ selection.commonsense.again = selection.commonsense.first
           /\ selection.commonsense.other = selection.commonsense.first

\* ------------------------------------------------------------------------
\* Claims about the date-added updater
\* ------------------------------------------------------------------------
EventsOf(op) == {k \in 1..Len(da.events) : da.events[k].op = op}
EventsBy(by) == {k \in 1..Len(da.events) : da.events[k].by = by}

\* C14: in a run of the date-added updater the cache file is written at most
\* once, by the main process and before anything a worker of the pool does,
\* and no worker writes it; workers only read it.
C14_CacheWrittenOnceBeforeFanOut ==
    mode = "date" =>
        /\ Cardinality(EventsOf("cache_write")) <= 1
        /\ \A k \in EventsOf("cache_write") :
              /\ da.events[k].by = "main"
              /\ \A j \in EventsBy("worker") : k < j

C14_Witness ==
    /\ mode = "date" /\ da.pool
    /\ \E k \in EventsOf("cache_write"), j \in EventsOf("cache_read") :
          k < j /\ da.events[j].by = "worker"

\* C15: in the pool mode no worker issues a write to the media server: every
\* POST is issued by the main process.
C15_WorkersIssueNoWrite ==
    mode = "date" => \A k \in EventsOf("POST") : da.events[k].by = "main"

\* C20: when the date-added updater is started with --dry-run, no POST is
\* issued to the media server during the run.
C20_DryRunIssuesNoWrite ==
    (mode = "date" /\ da.dry_run) => Posts(http) = <<>>

\* ------------------------------------------------------------------------
\* Claims about the anime cleaner
\* ------------------------------------------------------------------------
\* the name, lower-cased, has a keyword at some position
KeywordAt(name) ==
    \E kw \in ANIME_KEYWORDS, i \in 1..Len(name) :
        /\ i + Len(kw) - 1 <= Len(name)
        /\ \A j \in 1..Len(kw) : Lower(name)[i + j - 1] = kw[j]

\* the libraries the server shows, by flag
ShownLibraries(flagged) ==
    {an.views[k].Id : k \in {j \in 1..Len(an.views) : KeywordAt(an.views[j].Name) = flagged}}

\* the items under a shown library of the given flag that carry an AniDB or
\* AniList ID
AnimeTagged(flagged) ==
    {i \in ItemIds : /\ ParentLibrary[i] \in ShownLibraries(flagged)
                     /\ "ProviderIds" \in DOMAIN server[i]
                     /\ DOMAIN server[i]["ProviderIds"] \cap ANIME_PROVIDERS # {}}

\* the candidates the run selected
SelectedIds ==
    IF an.items_to_clean = None THEN {}
    ELSE {an.items_to_clean[k].id : k \in 1..Len(an.items_to_clean)}

WrittenIds == {http[k].id : k \in {j \in 1..Len(http) : http[j].m = "POST"}}

\* a finished run of the script in which every request was answered
AnimeRunAnswered ==
    /\ mode = "anime" /\ pc = "exited"
    /\ \A k \in 1..Len(http) : http[k].ok

\* the first part of C18: the flag of every library shown is the substring test
C18_FlagIsKeywordSubstring ==
    mode = "anime" =>
        \A k \in 1..Len(an.views) : IsAnimeLibrary(an.views[k].Name) = KeywordAt(an.views[k].Name)

\* the second part of C18: nothing under a flagged library is selected or written
C18_NothingFromAnimeLibraries ==
    mode = "anime" =>
        \A i \in ItemIds : ParentLibrary[i] \in ShownLibraries(TRUE) =>
            i \notin SelectedIds \cup WrittenIds

\* C18: a library is flagged anime exactly when its lower-cased name contains
\* a keyword; no item under a flagged library is selected or written; and
\* once a run in which every request was answered has ended, every item with
\* an AniDB or AniList ID under a library that is not flagged was selected.
C18_AnimeCandidates ==
    /\ C18_FlagIsKeywordSubstring
    /\ C18_NothingFromAnimeLibraries
    /\ AnimeRunAnswered => AnimeTagged(FALSE) \subseteq SelectedIds

\* C19: once a dry run in which every request was answered has ended, no
\* POST was issued and every candidate item is counted as cleaned, none as
\* skipped or failed (the model's series have no episodes in this mode).
C19_DryRunCountsCandidates ==
    (AnimeRunAnswered /\ an.dry_run) =>
        /\ WrittenIds = {}
        /\ AnimeTagged(FALSE) # {} =>
              /\ an.result # None
              /\ an.result.items_cleaned = Cardinality(AnimeTagged(FALSE))
              /\ an.result.items_skipped = 0
              /\ an.result.items_failed = 0
              /\ an.result.episodes_failed = 0

\* the first part of C19: a dry run of the script issues no POST
C19_DryRunIssuesNoPost ==
    (mode = "anime" /\ an.dry_run) => WrittenIds = {}

\* ------------------------------------------------------------------------
\* Claims about all scripts
\* ------------------------------------------------------------------------
IsWrite(q) == q.m = "POST" /\ q.ep = "Item"
IsListing(q) == q.m = "GET" /\ q.ep \in {"List", "Views"}

ReadBeforeWrite(reqs, id) ==
    \A j \in 1..Len(reqs) : IsWrite(reqs[j]) =>
        /\ reqs[j].id = id
        /\ j > 1 /\ reqs[j - 1] = Req("GET", "Item", id, TRUE)

\* the body is the record read with at most the field f set
ReadWithField(body, fetched, f) ==
    /\ fetched # None /\ body # None
    /\ DOMAIN body = DOMAIN fetched \cup {f}
    /\ \A g \in DOMAIN fetched : g # f => body[g] = fetched[g]

\* C17: every POST /Items/{id} follows, within the same update operation, an
\* answered GET /Items/{id} of the same id, and the body written is the
\* record that read returned with only the target field changed (for the
\* anime cleaner: with the provider IDs that are not anime ones kept as read),
\* never the record of the earlier listing.
C17_WriteFollowsOwnRead ==
    /\ (mode \in {"aus", "cs"} /\ lastCall.valid) =>
          /\ ReadBeforeWrite(lastCall.res.reqs, lastCall.item_id)
          /\ Posts(lastCall.res.reqs) # <<>> =>
                /\ lastCall.res.fetched = lastCall.before
                /\ ReadWithField(lastCall.res.body, lastCall.res.fetched, TheField(lastCall))
    /\ mode \in {"aus", "cs"} =>
          \A k \in 1..Len(results) : ReadBeforeWrite(results[k].reqs, results[k].item_id)
    /\ mode = "date" =>
          /\ \A j \in 1..Len(http) : IsWrite(http[j]) =>
                /\ \E i \in 1..(j - 1) : http[i] = Req("GET", "Item", http[j].id, TRUE)
                /\ \E d \in DOMAIN da.task :
                      /\ da.task[d].stage \in {"verify", "done"}
                      /\ da.task[d].body # None
                      /\ da.task[d].item = http[j].id
          /\ \A d \in DOMAIN da.task : da.task[d].body # None =>
                ReadWithField(da.task[d].body, da.task[d].fetched, "DateCreated")
    /\ mode = "anime" => \A j \in 1..Len(http) : ~IsWrite(http[j])
    /\ (mode = "cleaner" /\ pc = "called" /\ an.call.op = "remove_anime_provider_ids") =>
          /\ ReadBeforeWrite(an.call.res.reqs, an.call.item)
          /\ Posts(an.call.res.reqs) # <<>> =>
                /\ an.call.res.fetched = an.call.before
                /\ ReadWithField(an.call.res.body, an.call.res.fetched, "ProviderIds")
                /\ LET read == IF "ProviderIds" \in DOMAIN an.call.res.fetched
                               THEN an.call.res.fetched["ProviderIds"] ELSE EmptyDict
                       written == an.call.res.body["ProviderIds"]
                   IN /\ DOMAIN written \subseteq DOMAIN read
                      /\ \A p \in DOMAIN read \ ANIME_PROVIDERS :
                            p \in DOMAIN written /\ written[p] = read[p]

\* the cleaner wrote an item whose record on the server was no longer the one
\* of the listing
C17_Witness ==
    /\ mode = "cleaner" /\ pc = "called" /\ an.call.op = "remove_anime_provider_ids"
    /\ an.call.res.wrote
    /\ an.snapshot[an.call.item].provider_ids # an.call.before["ProviderIds"]
    /\ server[an.call.item] = an.call.res.body

\* ------------------------------------------------------------------------
\* Claims about the media type tags
\* ------------------------------------------------------------------------
\* C21: the type tags the anime cleaner uses are members of the core MediaType
\* set, so that, with every request answered, its scan of a library that is
\* not flagged anime and its per-series episode scan end without an exception.
C21_ScansRunToCompletion ==
    /\ AnimeRunAnswered => an.raised = None
    /\ (/\ mode = "cleaner" /\ pc = "called"
        /\ an.call.op = "clean_episodes_for_series"
        /\ \A k \in 1..Len(http) : http[k].ok) => ~an.call.res.raised

\* ------------------------------------------------------------------------
\* Claims about the Common Sense updater
\* ------------------------------------------------------------------------
\* C22: an invocation of update_commonsense_rating whose read returned the
\* record issues exactly one POST if the normalized current CustomRating
\* differs from the normalized desired value (an absent desired value against
\* a present current one included) and no POST otherwise.
C22_WritesExactlyWhenDifferent ==
    (mode = "cs" /\ lastCall.valid /\ lastCall.ro = "ok") =>
        LET current == NormalizeRatingValue(Get(lastCall.before, CUSTOM_RATING_FIELD))
            desired == NormalizeRatingValue(lastCall.updates[CUSTOM_RATING_FIELD])
        IN Len(Posts(lastCall.res.reqs)) = IF current # desired THEN 1 ELSE 0

\* ------------------------------------------------------------------------
\* Claims about remove_anime_provider_ids
\* ------------------------------------------------------------------------
RemoveCalled ==
    mode = "cleaner" /\ pc = "called" /\ an.call.op = "remove_anime_provider_ids"

\* C23: remove_anime_provider_ids issues a POST only if it removed at least
\* one anime provider ID from the record it read: a call that returns
\* (True, 0) has issued no POST.
C23_NoWriteWhenNothingRemoved ==
    (RemoveCalled /\ an.call.res.success /\ an.call.res.ids_removed = 0) =>
        Posts(an.call.res.reqs) = <<>>

\* ------------------------------------------------------------------------
\* Claims about the counters
\* ------------------------------------------------------------------------
\* the results of the folders that produced one
ValidResults == {d \in DOMAIN da.task : da.task[d].stage = "done" /\ da.task[d].result # None}

C25_PrimaryUserIsFirstUser ==
    primaryUser # None => (users # <<>> /\ primaryUser = users[1])

\* C25, second part: once kept, the primary user is returned on every later
\* access without a further request, and the kept user never changes.
C25_PrimaryUserKept ==
    [][primaryUser # None => primaryUser' = primaryUser]_vars

\* ------------------------------------------------------------------------
\* Claims about the record the anime cleaner writes
\* ------------------------------------------------------------------------
\* C27: after remove_anime_provider_ids returned success for an item, the
\* record it wrote holds neither an AniDB nor an AniList provider ID, and
\* holds every other provider ID and every other field of the record it read,
\* also when the record changed between the listing and the read.
C27_WrittenRecordHasNoAnimeId ==
    (RemoveCalled /\ an.call.res.success /\ an.call.res.wrote) =>
        LET fetched == an.call.res.fetched
            body == an.call.res.body
            read_ids == IF "ProviderIds" \in DOMAIN fetched
                        THEN fetched["ProviderIds"] ELSE EmptyDict
        IN /\ "ProviderIds" \in DOMAIN body
           /\ DOMAIN body["ProviderIds"] \cap ANIME_PROVIDERS = {}
           /\ \A p \in DOMAIN read_ids \ ANIME_PROVIDERS :
                 p \in DOMAIN body["ProviderIds"] /\ body["ProviderIds"][p] = read_ids[p]
           /\ \A f \in DOMAIN fetched \ {"ProviderIds"} :
                 f \in DOMAIN body /\ body[f] = fetched[f]

\* ------------------------------------------------------------------------
\* Claims about the outcome of a date update
\* ------------------------------------------------------------------------
\* the folders for which update_jellyfin_dateadded was called and has returned
DateUpdated ==
    {d \in DOMAIN da.task : /\ da.task[d].stage = "done"
                            /\ da.task[d].result # None
                            /\ da.task[d].result.status \in
                                  {"updated", "no_change_needed", "failed"}}

AcceptedWrites(d) == SelectSeq(da.task[d].writes, LAMBDA q : q.ok)

\* C29: update_jellyfin_dateadded issues at most one write per invocation;
\* it returns (True, False) only if it issued no write, (True, True) only if
\* it issued a write the server accepted, and (False, False) only if no write
\* was accepted: the read after the write never turns an accepted write into
\* a failure.
C29_OutcomeMatchesWrites ==
    mode = "date" =>
        \A d \in DateUpdated :
            LET r == da.task[d].result
            IN /\ Len(da.task[d].writes) <= 1
               /\ (r.success /\ ~r.was_updated) => da.task[d].writes = <<>>
               /\ (r.success /\ r.was_updated) => Len(AcceptedWrites(d)) = 1
               /\ ~r.success => AcceptedWrites(d) = <<>>

\* C29, without its last part: at most one write, Unchanged only without a
\* write, Updated only with an accepted write.
C29_AtMostOneWrite ==
    mode = "date" =>
        \A d \in DateUpdated :
            LET r == da.task[d].result
            IN /\ Len(da.task[d].writes) <= 1
               /\ (r.success /\ ~r.was_updated) => da.task[d].writes = <<>>
               /\ (r.success /\ r.was_updated) => Len(AcceptedWrites(d)) = 1
               /\ ~(r.was_updated /\ ~r.success)

\* ------------------------------------------------------------------------
\* Claims about the folders of one date-added run
\* ------------------------------------------------------------------------
\* the folders for which find_jellyfin_movie returned an item
Reconciled ==
    {d \in DOMAIN da.task : da.task[d].stage \in {"read", "write", "verify"}} \cup DateUpdated

\* C30: in one run of the date-added updater no two movie directories are
\* reconciled against the same item of the media server.
C30_NoTwoFoldersOnOneItem ==
    mode = "date" =>
        \A d1, d2 \in Reconciled : d1 # d2 => da.task[d1].item # da.task[d2].item

\* C30, its consequence: no item's DateCreated is written twice with
\* different values in one run.
C30_NoItemWrittenTwice ==
    mode = "date" =>
        \A d1, d2 \in Reconciled :
            (/\ d1 # d2
             /\ AcceptedWrites(d1) # <<>> /\ AcceptedWrites(d2) # <<>>
             /\ da.task[d1].item = da.task[d2].item)
                => da.task[d1].body["DateCreated"] = da.task[d2].body["DateCreated"]

\* ------------------------------------------------------------------------
\* Claims about the Radarr movie cache
\* ------------------------------------------------------------------------
\* C26: clear_cache forces a reload: after any lookups, rewrites of the cache
\* file and a call of clear_cache, the next access to movies_lookup or
\* title_lookup gives what the cache file holds at that access (here: the
\* access that follows clear_cache with no rewrite in between).
C26_ClearCacheForcesReload ==
    (mode = "cache" /\ da.last # None /\ da.last.after_clear) =>
        da.last.value = LookupOf(da.last.attr, da.last.file)

\* ------------------------------------------------------------------------
\* Claims about the rating proposed for an item
\* ------------------------------------------------------------------------
\* what the ratings service returned for the item's own provider, media type
\* and external id; CommonSenseRating() if it returned nothing for it
OwnRating(media_item) ==
    LET own == SelectSeq(cs.returned,
                         LAMBDA b : /\ b.provider = media_item.provider
                                    /\ b.media_type = media_item.media_type
                                    /\ media_item.external_id \in DOMAIN b.ratings)
    IN IF own = <<>> THEN CommonSenseRating(None, None)
       ELSE own[Len(own)].ratings[media_item.external_id]

\* C28: in the Common Sense script the rating proposed for an item is the one
\* the ratings service returned for that item's own provider, media type and
\* external id, or absent if it returned none for it.
C28_RatingIsTheItemsOwn ==
    (mode = "cs" /\ lastCall.valid) =>
        \A k \in 1..Len(cs.media) :
            cs.media[k].id = lastCall.item_id =>
                lastCall.updates[CUSTOM_RATING_FIELD] = OwnRating(cs.media[k]).age_rating

====
